---- MODULE Spec2Model ----
(***************************************************************************)
(* A model of the reader application: the URL validator, the ingestion     *)
(* (POST) and read (GET) handlers of the fetch route with their in-memory  *)
(* store, and the reader view that renders a stored record.                *)
(*                                                                         *)
(* JavaScript strings are modelled as sequences of one-character strings,  *)
(* so that parsing, case folding, substring search and suffix tests are    *)
(* computed and not assumed.                                               *)
(***************************************************************************)
EXTENDS Integers, Sequences, FiniteSets, TLC

(***************************************************************************)
(* Characters and strings                                                  *)
(***************************************************************************)
UpperChars ==
    <<"A","B","C","D","E","F","G","H","I","J","K","L","M",
      "N","O","P","Q","R","S","T","U","V","W","X","Y","Z">>

LowerChars ==
    <<"a","b","c","d","e","f","g","h","i","j","k","l","m",
      "n","o","p","q","r","s","t","u","v","w","x","y","z">>

DigitChars ==
    <<"0","1","2","3","4","5","6","7","8","9">>

HexChars ==
    <<"0","1","2","3","4","5","6","7","8","9","a","b","c","d","e","f">>

Range(s) ==
    { s[i] : i \in 1..Len(s) }

IndexIn(c, s) ==
    CHOOSE i \in 1..Len(s) : s[i] = c

UpperSet == Range(UpperChars)
LowerSet == Range(LowerChars)
DigitSet == Range(DigitChars)
HexSet   == Range(HexChars)

\* the lower-case letter of each upper-case letter
LowerOf ==
    [ c \in UpperSet |-> LowerChars[IndexIn(c, UpperChars)] ]

\* the value of each hexadecimal digit
HexValOf ==
    [ c \in HexSet |-> IndexIn(c, HexChars) - 1 ]

IsUpper(c) ==
    c \in UpperSet

IsLower(c) ==
    c \in LowerSet

IsAlpha(c) ==
    IsUpper(c) \/ IsLower(c)

IsDigit(c) ==
    c \in DigitSet

\* String.prototype.toLowerCase, one character
ToLowerChar(c) ==
    IF IsUpper(c) THEN LowerOf[c] ELSE c

\* String.prototype.toLowerCase
ToLowerCase(s) ==
    [ i \in 1..Len(s) |-> ToLowerChar(s[i]) ]

IsHexDigit(c) ==
    ToLowerChar(c) \in HexSet

HexVal(c) ==
    HexValOf[ToLowerChar(c)]

\* the part of s from index i on (String.prototype.substring(i - 1))
From(s, i) ==
    SubSeq(s, i, Len(s))

\* s.startsWith(p)
StartsWith(s, p) ==
    /\ Len(p) <= Len(s)
    /\ SubSeq(s, 1, Len(p)) = p

\* s.endsWith(p)
EndsWith(s, p) ==
    /\ Len(p) <= Len(s)
    /\ SubSeq(s, Len(s) - Len(p) + 1, Len(s)) = p

\* s.includes(p)
Includes(s, p) ==
    \E i \in 1..(Len(s) - Len(p) + 1) : SubSeq(s, i, i + Len(p) - 1) = p

\* index of the first character of s that is in the set cs, 0 when there is none
FirstOf(s, cs) ==
    IF \E i \in 1..Len(s) : s[i] \in cs
    THEN CHOOSE i \in 1..Len(s) : s[i] \in cs /\ \A j \in 1..(i - 1) : s[j] \notin cs
    ELSE 0

\* index of the last character of s that is in the set cs, 0 when there is none
LastOf(s, cs) ==
    IF \E i \in 1..Len(s) : s[i] \in cs
    THEN CHOOSE i \in 1..Len(s) : s[i] \in cs /\ \A j \in (i + 1)..Len(s) : s[j] \notin cs
    ELSE 0

\* s.split(c): the parts of s between the occurrences of the character c
RECURSIVE Split(_, _)
Split(s, c) ==
    LET i == FirstOf(s, {c})
    IN  IF i = 0 THEN <<s>>
        ELSE <<SubSeq(s, 1, i - 1)>> \o Split(From(s, i + 1), c)

\* parts.join(c)
RECURSIVE Join(_, _)
Join(parts, c) ==
    IF Len(parts) = 0 THEN <<>>
    ELSE IF Len(parts) = 1 THEN parts[1]
    ELSE parts[1] \o <<c>> \o Join(Tail(parts), c)

AllDigits(s) ==
    \A i \in 1..Len(s) : IsDigit(s[i])

\* the value of the digit string s in the given base; the caller has checked the digits
RECURSIVE NumIn(_, _)
NumIn(s, base) ==
    IF Len(s) = 0 THEN 0
    ELSE NumIn(SubSeq(s, 1, Len(s) - 1), base) * base + HexVal(s[Len(s)])

\* Number(s) for a string of decimal digits (leading zeros are not octal)
Number(s) ==
    NumIn(s, 10)

\* Number.prototype.toString(base) of n >= 0, lower case
RECURSIVE NumToString(_, _)
NumToString(n, base) ==
    IF n < base THEN <<HexChars[n + 1]>>
    ELSE NumToString(n \div base, base) \o <<HexChars[(n % base) + 1]>>

(***************************************************************************)
(* String literals of the source                                           *)
(***************************************************************************)
S_http      == <<"h","t","t","p">>
S_https     == <<"h","t","t","p","s">>
S_ftp       == <<"f","t","p">>
S_ws        == <<"w","s">>
S_wss       == <<"w","s","s">>
S_file      == <<"f","i","l","e">>
S_data      == <<"d","a","t","a">>
S_localhost == <<"l","o","c","a","l","h","o","s","t">>
S_loopback4 == <<"1","2","7",".","0",".","0",".","1">>
S_loopback6 == <<":",":","1">>
S_demo      == <<"d","e","m","o">>
S_example   == <<"e","x","a","m","p","l","e",".","c","o","m">>

(***************************************************************************)
(* new URL(url): the WHATWG URL parser the runtime provides, for inputs    *)
(* over letters, digits and the punctuation : / \ ? # @ [ ] . - + (no      *)
(* white space, no percent escapes, no non-ASCII).  It yields the scheme   *)
(* in lower case and the host in its serialised form.                      *)
(***************************************************************************)
SpecialSchemes ==
    {S_http, S_https, S_ftp, S_ws, S_wss}

SchemeChar(c) ==
    IsAlpha(c) \/ IsDigit(c) \/ c \in {"+", "-", "."}

ForbiddenDomainChars ==
    {" ", "#", "/", ":", "<", ">", "?", "@", "[", "\\", "]", "^", "|", "%"}

\* a 32-bit value as four octets, low octet first, and an overflow flag:
\* w * base + d
MulAdd(w, base, d) ==
    LET t0 == w[1] * base + d
        t1 == w[2] * base + (t0 \div 256)
        t2 == w[3] * base + (t1 \div 256)
        t3 == w[4] * base + (t2 \div 256)
    IN  << t0 % 256, t1 % 256, t2 % 256, t3 % 256,
           IF w[5] = 1 \/ (t3 \div 256) > 0 THEN 1 ELSE 0 >>

RECURSIVE Wide(_, _)
Wide(s, base) ==
    IF Len(s) = 0 THEN <<0, 0, 0, 0, 0>>
    ELSE MulAdd(Wide(SubSeq(s, 1, Len(s) - 1), base), base, HexVal(s[Len(s)]))

\* the base an IPv4 number is written in: 0x is hexadecimal, a leading 0 octal
NumberBase(p) ==
    IF Len(p) >= 2 /\ p[1] = "0"
    THEN (IF ToLowerChar(p[2]) = "x" THEN 16 ELSE 8)
    ELSE 10

\* the digits of an IPv4 number, its base prefix dropped
NumberBody(p, base) ==
    IF base = 16 THEN From(p, 3) ELSE IF base = 8 THEN From(p, 2) ELSE p

DigitsValue(body, base) ==
    IF \A i \in 1..Len(body) : IsHexDigit(body[i]) /\ HexVal(body[i]) < base
    THEN Wide(body, base)
    ELSE <<>>

\* the IPv4 number parser: <<>> on failure, else the value as octets
ParseIPv4Number(p) ==
    IF Len(p) = 0 THEN <<>>
    ELSE DigitsValue(NumberBody(p, NumberBase(p)), NumberBase(p))

\* parts without a single empty last part
DropEmptyLast(parts) ==
    IF Len(parts) > 1 /\ parts[Len(parts)] = <<>>
    THEN SubSeq(parts, 1, Len(parts) - 1)
    ELSE parts

\* the parts of a host between its dots, a single empty last part dropped
HostParts(h) ==
    DropEmptyLast(Split(h, "."))

LastItem(parts) ==
    parts[Len(parts)]

IsNumberPart(last) ==
    /\ last # <<>>
    /\ \/ AllDigits(last)
       \/ ParseIPv4Number(last) # <<>>

\* the ends-in-a-number checker
EndsInNumber(h) ==
    IsNumberPart(LastItem(HostParts(h)))

\* the address of the numbers of an IPv4 host: each but the last is below
\* 256, the last fills the octets that remain
IPv4OfNumbers(nums) ==
    IF \E i \in 1..Len(nums) : nums[i] = <<>> THEN <<>>
    ELSE IF \E i \in 1..(Len(nums) - 1) :
                nums[i][2] # 0 \/ nums[i][3] # 0 \/ nums[i][4] # 0 \/ nums[i][5] # 0
         THEN <<>>
    ELSE IF nums[Len(nums)][5] # 0 \/ \E k \in (6 - Len(nums))..4 : nums[Len(nums)][k] # 0
         THEN <<>>
    ELSE [ i \in 1..4 |-> IF i < Len(nums) THEN nums[i][1] ELSE nums[Len(nums)][5 - i] ]

IPv4OfParts(parts) ==
    IF Len(parts) > 4 THEN <<>>
    ELSE IPv4OfNumbers([ i \in 1..Len(parts) |-> ParseIPv4Number(parts[i]) ])

\* the IPv4 parser: <<>> on failure, else the four octets of the address
ParseIPv4(h) ==
    IPv4OfParts(HostParts(h))

SerializeIPv4(a) ==
    Join([ i \in 1..4 |-> NumToString(a[i], 10) ], ".")

IsHexPiece(p) ==
    /\ Len(p) \in 1..4
    /\ \A i \in 1..Len(p) : IsHexDigit(p[i])

\* index of the first "::" of s, 0 when there is none
DoubleColon(s) ==
    IF \E i \in 1..(Len(s) - 1) : s[i] = ":" /\ s[i + 1] = ":"
    THEN CHOOSE i \in 1..(Len(s) - 1) :
            /\ s[i] = ":" /\ s[i + 1] = ":"
            /\ \A j \in 1..(i - 1) : ~(s[j] = ":" /\ s[j + 1] = ":")
    ELSE 0

Pieces(s) ==
    IF s = <<>> THEN <<>> ELSE Split(s, ":")

\* the eight pieces of an address written as lp, or as lp::rp when compressed
IPv6OfPieces(lp, rp, compressed) ==
    IF \E i \in 1..Len(lp) : ~IsHexPiece(lp[i]) THEN <<>>
    ELSE IF \E i \in 1..Len(rp) : ~IsHexPiece(rp[i]) THEN <<>>
    ELSE IF ~compressed
         THEN (IF Len(lp) = 8 THEN [ i \in 1..8 |-> NumIn(lp[i], 16) ] ELSE <<>>)
    ELSE IF Len(lp) + Len(rp) > 7 THEN <<>>
    ELSE [ i \in 1..8 |->
             IF i <= Len(lp) THEN NumIn(lp[i], 16)
             ELSE IF i > 8 - Len(rp) THEN NumIn(rp[i - (8 - Len(rp))], 16)
             ELSE 0 ]

IPv6Around(s, dc) ==
    IF dc = 0 THEN IPv6OfPieces(Pieces(s), <<>>, FALSE)
    ELSE IPv6OfPieces(Pieces(SubSeq(s, 1, dc - 1)), Pieces(From(s, dc + 2)), TRUE)

\* the IPv6 parser (no embedded IPv4 form): <<>> on failure, else eight pieces
ParseIPv6(s) ==
    IPv6Around(s, DoubleColon(s))

\* length of the run of zero pieces of a that starts at piece i
RECURSIVE ZeroRun(_, _)
ZeroRun(a, i) ==
    IF i > 8 THEN 0 ELSE IF a[i] # 0 THEN 0 ELSE 1 + ZeroRun(a, i + 1)

\* the first longest of the runs, when it is of two or more, else 0
FirstLongest(runs) ==
    IF \E i \in 1..8 : runs[i] >= 2
    THEN CHOOSE i \in 1..8 :
            /\ runs[i] >= 2
            /\ \A j \in 1..8 : runs[j] <= runs[i]
            /\ \A j \in 1..(i - 1) : runs[j] < runs[i]
    ELSE 0

\* the first longest run of two or more zero pieces, 0 when there is none
CompressAt(a) ==
    FirstLongest([ i \in 1..8 |-> ZeroRun(a, i) ])

RECURSIVE SerializeIPv6From(_, _, _)
SerializeIPv6From(a, i, c) ==
    IF i > 8 THEN <<>>
    ELSE IF i = c
         THEN (IF i = 1 THEN <<":", ":">> ELSE <<":">>)
              \o SerializeIPv6From(a, i + ZeroRun(a, i), c)
    ELSE NumToString(a[i], 16)
         \o (IF i < 8 THEN <<":">> ELSE <<>>)
         \o SerializeIPv6From(a, i + 1, c)

SerializeIPv6(a) ==
    SerializeIPv6From(a, 1, CompressAt(a))

HostFailure ==
    [ok |-> FALSE, host |-> <<>>]

\* the host of a parsed address, serialised
IPv6Host(a) ==
    IF a = <<>> THEN HostFailure
    ELSE [ok |-> TRUE, host |-> <<"[">> \o SerializeIPv6(a) \o <<"]">>]

IPv4Host(a) ==
    IF a = <<>> THEN HostFailure
    ELSE [ok |-> TRUE, host |-> SerializeIPv4(a)]

\* the host of a special scheme, in lower case
DomainHost(d) ==
    IF \E i \in 1..Len(d) : d[i] \in ForbiddenDomainChars THEN HostFailure
    ELSE IF EndsInNumber(d) THEN IPv4Host(ParseIPv4(d))
    ELSE [ok |-> TRUE, host |-> d]

\* the host parser; the host is opaque for a scheme that is not special
ParseHost(h, special) ==
    IF Len(h) = 0 THEN HostFailure
    ELSE IF h[1] = "["
         THEN IF h[Len(h)] # "]" THEN HostFailure
              ELSE IPv6Host(ParseIPv6(SubSeq(h, 2, Len(h) - 1)))
    ELSE IF ~special
         THEN IF \E i \in 1..Len(h) : h[i] \in (ForbiddenDomainChars \ {"%"})
              THEN HostFailure
              ELSE [ok |-> TRUE, host |-> h]
    ELSE DomainHost(ToLowerCase(h))

\* s without its leading slashes and backslashes
RECURSIVE SkipSlashes(_)
SkipSlashes(s) ==
    IF Len(s) = 0 THEN s
    ELSE IF s[1] \in {"/", "\\"} THEN SkipSlashes(Tail(s))
    ELSE s

\* s up to the character before index e, all of s when e is 0
Before(s, e) ==
    IF e = 0 THEN s ELSE SubSeq(s, 1, e - 1)

\* the authority of s: up to its first / \ ? or #
Authority(s) ==
    Before(s, FirstOf(s, {"/", "\\", "?", "#"}))

\* the index in hp that follows the closing bracket of its address, 0 when
\* the bracket ends hp
AfterBracket(hp, br) ==
    IF br = Len(hp) THEN 0 ELSE br + 1

\* the index of the character of hp that must be the colon of the port, 0
\* when hp holds no port
PortAt(hp) ==
    IF Len(hp) = 0 THEN 0
    ELSE IF hp[1] = "[" /\ FirstOf(hp, {"]"}) > 0 THEN AfterBracket(hp, FirstOf(hp, {"]"}))
    ELSE FirstOf(hp, {":"})

SplitPort(hp, c) ==
    IF c = 0 THEN [ok |-> TRUE, host |-> hp, port |-> <<>>]
    ELSE [ok   |-> hp[c] = ":",
          host |-> SubSeq(hp, 1, c - 1),
          port |-> From(hp, c + 1)]

WithoutCredentials(auth) ==
    From(auth, LastOf(auth, {"@"}) + 1)

HostAndPort(hp) ==
    SplitPort(hp, PortAt(hp))

\* host and port of an authority, its credentials dropped
HostPort(auth) ==
    HostAndPort(WithoutCredentials(auth))

FitsPort(w) ==
    w[3] = 0 /\ w[4] = 0 /\ w[5] = 0

PortOk(p) ==
    AllDigits(p) /\ FitsPort(Wide(p, 10))

URLFailure ==
    [ok |-> FALSE, protocol |-> <<>>, hostname |-> <<>>]

URLRecord(scheme, host) ==
    [ok |-> TRUE, protocol |-> scheme \o <<":">>, hostname |-> host]

\* the URL of a scheme and a parsed host; the host localhost of file: is empty
HostURL(scheme, h) ==
    IF ~h.ok THEN URLFailure
    ELSE URLRecord(scheme, IF scheme = S_file /\ h.host = S_localhost THEN <<>> ELSE h.host)

\* the text of the host of "scheme:rest", whether it is there and well
\* delimited: a special scheme has an authority after any slashes, file:// has
\* a host and nothing else, another scheme has an authority after //
HostText(hp, special) ==
    [ok |-> hp.ok /\ PortOk(hp.port), absent |-> FALSE, host |-> hp.host, special |-> special]

NoHostText ==
    [ok |-> TRUE, absent |-> TRUE, host |-> <<>>, special |-> FALSE]

HostOf(scheme, rest) ==
    IF scheme \in SpecialSchemes
    THEN HostText(HostPort(Authority(SkipSlashes(rest))), TRUE)
    ELSE IF scheme = S_file
         THEN (IF Len(rest) >= 2 /\ rest[1] \in {"/", "\\"} /\ rest[2] \in {"/", "\\"}
               THEN [ok |-> TRUE, absent |-> FALSE, host |-> Authority(From(rest, 3)),
                     special |-> TRUE]
               ELSE NoHostText)
    ELSE IF StartsWith(rest, <<"/", "/">>)
         THEN HostText(HostPort(Authority(From(rest, 3))), FALSE)
    ELSE NoHostText

\* the URL of a scheme and the text of its host
URLOf(scheme, t) ==
    IF ~t.ok THEN URLFailure
    ELSE IF t.absent THEN URLRecord(scheme, <<>>)
    ELSE IF t.host = <<>>
         THEN (IF t.special /\ scheme # S_file THEN URLFailure ELSE URLRecord(scheme, <<>>))
    ELSE HostURL(scheme, ParseHost(t.host, t.special))

SchemeOk(raw) ==
    IsAlpha(raw[1]) /\ \A i \in 1..Len(raw) : SchemeChar(raw[i])

AfterScheme(raw, rest) ==
    IF ~SchemeOk(raw) THEN URLFailure
    ELSE URLOf(ToLowerCase(raw), HostOf(ToLowerCase(raw), rest))

SplitScheme(u, colon) ==
    IF colon <= 1 THEN URLFailure
    ELSE AfterScheme(SubSeq(u, 1, colon - 1), From(u, colon + 1))

\* new URL(u) without a base: ok is FALSE where the constructor throws
ParseURL(u) ==
    SplitScheme(u, FirstOf(u, {":"}))

(***************************************************************************)
(* The URL validator of the fetch route                                    *)
(***************************************************************************)
\* /^(\d{1,3})\.(\d{1,3})\.(\d{1,3})\.(\d{1,3})$/: the four groups, <<>> when
\* the host name does not match
ipv4Regex(hostname) ==
    LET parts == Split(hostname, ".")
    IN  IF /\ Len(parts) = 4
           /\ \A i \in 1..4 : Len(parts[i]) \in 1..3 /\ AllDigits(parts[i])
        THEN parts
        ELSE <<>>

\* isPrivateIP with the upper edge of 172.16.0.0/12 off by one and the
\* link-local block forgotten
isPrivateIP_edges(hostname) ==
    IF hostname = S_localhost \/ hostname = S_loopback4 \/ hostname = S_loopback6
    THEN TRUE
    ELSE IF ipv4Regex(hostname) # <<>>
         THEN LET a == Number(ipv4Regex(hostname)[1])
                  b == Number(ipv4Regex(hostname)[2])
              IN  IF a = 10 THEN TRUE
                  ELSE IF a = 172 /\ b >= 16 /\ b < 31 THEN TRUE
                  ELSE IF a = 192 /\ b = 168 THEN TRUE
                  ELSE IF a = 127 THEN TRUE
                  ELSE FALSE
    ELSE FALSE

isPrivateIP(hostname) ==
    IF hostname = S_localhost \/ hostname = S_loopback4 \/ hostname = S_loopback6
    THEN TRUE
    ELSE IF ipv4Regex(hostname) # <<>>
         THEN LET a == Number(ipv4Regex(hostname)[1])
                  b == Number(ipv4Regex(hostname)[2])
              IN  IF a = 10 THEN TRUE
                  ELSE IF a = 172 /\ b >= 16 /\ b <= 31 THEN TRUE
                  ELSE IF a = 192 /\ b = 168 THEN TRUE
                  ELSE IF a = 169 /\ b = 254 THEN TRUE
                  ELSE IF a = 127 THEN TRUE
                  ELSE FALSE
    ELSE FALSE

ErrProtocol == "Only HTTP and HTTPS protocols are allowed"
ErrPrivate  == "Access to private/internal IPs is not allowed"
ErrFormat   == "Invalid URL format"
NoError     == "undefined"

\* the checks of validateURL with the private-host check made before the
\* scheme check
CheckParsed_hostFirst(parsed) ==
    IF isPrivateIP(parsed.hostname)
    THEN [valid |-> FALSE, error |-> ErrPrivate]
    ELSE IF parsed.protocol # S_http \o <<":">> /\ parsed.protocol # S_https \o <<":">>
         THEN [valid |-> FALSE, error |-> ErrProtocol]
    ELSE [valid |-> TRUE, error |-> NoError]

\* the checks of validateURL on a parsed URL
CheckParsed(parsed) ==
    IF parsed.protocol # S_http \o <<":">> /\ parsed.protocol # S_https \o <<":">>
    THEN [valid |-> FALSE, error |-> ErrProtocol]
    ELSE IF isPrivateIP(parsed.hostname)
         THEN [valid |-> FALSE, error |-> ErrPrivate]
    ELSE [valid |-> TRUE, error |-> NoError]

\* the try block of validateURL: the catch answers a constructor that throws
TryParsed(parsed) ==
    IF ~parsed.ok
    THEN [valid |-> FALSE, error |-> ErrFormat]
    ELSE CheckParsed(parsed)

validateURL(url) ==
    TryParsed(ParseURL(url))

(***************************************************************************)
(* HTML.  An HTML string is a sequence of symbols: a one-character string  *)
(* is a character of text, and a string that starts with < is a tag,       *)
(* spelled as it is written.  TagTable gives what a parser reads in each   *)
(* tag: its name, whether it closes, and its attributes.  Documents are    *)
(* well formed (every element that is not void is closed, text holds no    *)
(* raw < or >).                                                            *)
(***************************************************************************)
El(name, classes, id, role, attrs) ==
    [name |-> name, close |-> FALSE, classes |-> classes, id |-> id,
     role |-> role, attrs |-> attrs]

Open(name) ==
    El(name, {}, "", "", {})

Close(name) ==
    [name |-> name, close |-> TRUE, classes |-> {}, id |-> "", role |-> "",
     attrs |-> {}]

VoidNames ==
    {"br", "img", "meta", "link", "hr", "input"}

PlainNames ==
    {"html", "head", "title", "body", "script", "style", "nav", "header",
     "footer", "aside", "iframe", "article", "main", "div", "section", "p",
     "pre", "h1", "h2", "ul", "li", "a", "span", "strong", "em", "form",
     "br", "img"}

\* the tags with attributes that the documents of the model use
AttrTags ==
    { <<"<div role=\"main\">",           El("div", {}, "", "main", {"role"})>>,
      <<"<div class=\"article-content\">", El("div", {"article-content"}, "", "", {"class"})>>,
      <<"<div class=\"post-content\">",  El("div", {"post-content"}, "", "", {"class"})>>,
      <<"<div class=\"entry-content\">", El("div", {"entry-content"}, "", "", {"class"})>>,
      <<"<div id=\"content\">",          El("div", {}, "content", "", {"id"})>>,
      <<"<div class=\"content\">",       El("div", {"content"}, "", "", {"class"})>>,
      <<"<div class=\"ad\">",            El("div", {"ad"}, "", "", {"class"})>>,
      <<"<div class=\"advertisement\">", El("div", {"advertisement"}, "", "", {"class"})>>,
      <<"<div class=\"social-share\">",  El("div", {"social-share"}, "", "", {"class"})>>,
      <<"<p onclick=\"x()\">",           El("p", {}, "", "", {"onclick"})>>,
      <<"<p style=\"x\">",               El("p", {}, "", "", {"style"})>>,
      <<"<p class=\"lead\">",            El("p", {"lead"}, "", "", {"class"})>>,
      <<"<p data-k=\"v\">",              El("p", {}, "", "", {"data-k"})>>,
      <<"<p aria-label=\"x\">",          El("p", {}, "", "", {"aria-label"})>>,
      <<"<a href=\"u\">",                El("a", {}, "", "", {"href"})>>,
      <<"<img src=\"u\" onerror=\"x()\">", El("img", {}, "", "", {"src", "onerror"})>>,
      <<"<img src=\"u\">",               El("img", {}, "", "", {"src"})>>,
      <<"<br/>",                         El("br", {}, "", "", {"/"})>> }

\* the most chapters a document of the model has
MaxChapters == 6

\* `chapter-${chapterIndex}`
ChapterId(n) ==
    "chapter-" \o ToString(n)

\* `<div className="chapter" id="${chapterId}">`
ChapterTag(n) ==
    "<div className=\"chapter\" id=\"" \o ChapterId(n) \o "\">"

\* the same tag with its id alone
ChapterTagClean(n) ==
    "<div id=\"" \o ChapterId(n) \o "\">"

ChapterTags ==
    { <<ChapterTag(n), El("div", {}, ChapterId(n), "", {"className", "id"})>> :
          n \in 1..MaxChapters }
    \cup { <<ChapterTagClean(n), El("div", {}, ChapterId(n), "", {"id"})>> :
          n \in 1..MaxChapters }

OpenTag(name) ==
    "<" \o name \o ">"

CloseTag(name) ==
    "</" \o name \o ">"

TagTable ==
    { <<OpenTag(n), Open(n)>> : n \in PlainNames }
    \cup { <<CloseTag(n), Close(n)>> : n \in PlainNames \ VoidNames }
    \cup AttrTags
    \cup ChapterTags

TagSet ==
    { e[1] : e \in TagTable }

TagInfo ==
    [ t \in TagSet |-> (CHOOSE e \in TagTable : e[1] = t)[2] ]

\* what a parser reads in a symbol that is a character of text
TextInfo ==
    [name |-> "", close |-> FALSE, classes |-> {}, id |-> "", role |-> "",
     attrs |-> {}]

Lookup(table, t) ==
    IF t \in DOMAIN table THEN table[t] ELSE TextInfo

\* what a parser reads in the symbol t
Info(t) ==
    Lookup(TagInfo, t)

IsTag(t) ==
    Info(t).name # ""

OpenInfo(info) ==
    info.name # "" /\ ~info.close

IsOpen(t) ==
    OpenInfo(Info(t))

CloseInfo(info) ==
    info.name # "" /\ info.close

IsClose(t) ==
    CloseInfo(Info(t))

VoidInfo(info) ==
    OpenInfo(info) /\ info.name \in VoidNames

IsVoid(t) ==
    VoidInfo(Info(t))

\* the change of the count of open elements of that name made by a symbol
Depth(info, name) ==
    IF info.name # name THEN 0 ELSE IF info.close THEN -1 ELSE 1

Min(S) ==
    CHOOSE i \in S : \A j \in S : i <= j

\* the least of a set of indexes, 0 when it is empty
MinOrZero(S) ==
    IF S = {} THEN 0 ELSE Min(S)

\* the greatest of a set of indexes, 0 when it is empty
MaxOrZero(S) ==
    IF S = {} THEN 0 ELSE CHOOSE j \in S : \A k \in S : k <= j

\* the count of elements of that name open after doc[j], one being open at i
Balance(doc, i, j, name) ==
    1 + Cardinality({ k \in (i + 1)..j : Depth(Info(doc[k]), name) = 1 })
      - Cardinality({ k \in (i + 1)..j : Depth(Info(doc[k]), name) = -1 })

\* index of the tag that closes the element of that name opened at i, the
\* end of the document when none does
CloseFrom(doc, i, name) ==
    Min({ j \in (i + 1)..Len(doc) : Balance(doc, i, j, name) = 0 }
        \cup {Len(doc) + 1})

EndOfInfo(doc, i, info) ==
    IF VoidInfo(info) THEN i ELSE CloseFrom(doc, i, info.name)

\* index of the last symbol of the element opened at i
EndOf(doc, i) ==
    EndOfInfo(doc, i, Info(doc[i]))

\* element.html(): the inner HTML of the element opened at i
InnerHTML(doc, i) ==
    SubSeq(doc, i + 1, EndOf(doc, i) - 1)

IsText(t) ==
    ~IsTag(t)

\* the characters of an HTML string, its tags dropped
TextOf(h) ==
    SelectSeq(h, IsText)

\* a selector: a list of alternatives by tag name, class, id and role
Selector(names, classes, ids, roles) ==
    [names |-> names, classes |-> classes, ids |-> ids, roles |-> roles]

MatchesInfo(info, sel) ==
    /\ OpenInfo(info)
    /\ \/ info.name \in sel.names
       \/ info.classes \cap sel.classes # {}
       \/ info.id \in sel.ids
       \/ info.role \in sel.roles

Matches(t, sel) ==
    MatchesInfo(Info(t), sel)

\* $(selector): the indexes of the matching elements, in document order
Select(doc, sel) ==
    { i \in 1..Len(doc) : Matches(doc[i], sel) }

\* $(selector).text(): the text of every matching element, concatenated
RECURSIVE TextOfAll(_, _)
TextFrom(doc, idx, i) ==
    TextOf(InnerHTML(doc, i)) \o TextOfAll(doc, idx \ {i})

TextOfAll(doc, idx) ==
    IF idx = {} THEN <<>> ELSE TextFrom(doc, idx, Min(idx))

\* $(selector).remove(): the document without the matching elements; i is the
\* first of them
RECURSIVE Remove(_, _)
RemoveAt(doc, sel, i) ==
    IF i = 0 THEN doc
    ELSE SubSeq(doc, 1, i - 1) \o Remove(From(doc, EndOf(doc, i) + 1), sel)

Remove(doc, sel) ==
    RemoveAt(doc, sel, MinOrZero(Select(doc, sel)))

WhiteSpace ==
    {" ", "\n", "\t", "\r"}

\* the length of the longest prefix of s made of white space
SpaceRun(s) ==
    Min({ j \in 1..Len(s) : s[j] \notin WhiteSpace } \cup {Len(s) + 1}) - 1

\* String.prototype.trim
TrimStart(s) ==
    From(s, SpaceRun(s) + 1)

TrimEnd(s) ==
    SubSeq(s, 1, MaxOrZero({ j \in 1..Len(s) : s[j] \notin WhiteSpace }))

Trim(s) ==
    TrimEnd(TrimStart(s))

(***************************************************************************)
(* extractMainContent of the fetch route                                   *)
(***************************************************************************)
S_Untitled == <<"U","n","t","i","t","l","e","d">>

NoiseNames ==
    {"script", "style", "nav", "header", "footer", "aside", "iframe"}

\* a first remove() that removes nothing
NoiseBefore_nothing ==
    Selector({}, {}, {}, {})

\* 'script, style, nav, header, footer, aside, iframe, .ad, .advertisement, .social-share'
NoiseBefore ==
    Selector(NoiseNames, {"ad", "advertisement", "social-share"}, {}, {})

\* 'script, style, nav, header, footer, aside, iframe, .ad, .advertisement'
NoiseAfter ==
    Selector(NoiseNames, {"ad", "advertisement"}, {}, {})

articleSelectors ==
    << Selector({"article"}, {}, {}, {}),
       Selector({}, {}, {}, {"main"}),
       Selector({"main"}, {}, {}, {}),
       Selector({}, {"article-content"}, {}, {}),
       Selector({}, {"post-content"}, {}, {}),
       Selector({}, {"entry-content"}, {}, {}),
       Selector({}, {}, {"content"}, {}),
       Selector({}, {"content"}, {}, {}) >>

MinTextLength == 100

\* the loop over articleSelectors from the k-th on: the content it leaves
RECURSIVE FindContent(_, _)
TrySelector(doc, k, element) ==
    IF element # {} /\ Len(Trim(TextOfAll(doc, element))) > MinTextLength
    THEN InnerHTML(doc, Min(element))
    ELSE FindContent(doc, k + 1)

FindContent(doc, k) ==
    IF k > Len(articleSelectors) THEN <<>>
    ELSE TrySelector(doc, k, Select(doc, articleSelectors[k]))

\* $(selector).first().html() || ''
FirstHTML(doc, element) ==
    IF element = {} THEN <<>> ELSE InnerHTML(doc, Min(element))

\* a || b
OrElse(a, b) ==
    IF a # <<>> THEN a ELSE b

\* cheerio.load(fragment): the fragment as the body of a document
LoadFragment(content) ==
    <<"<html>", "<head>", "</head>", "<body>">> \o content \o <<"</body>", "</html>">>

\* extractMainContent from the first remove() on
ExtractFrom(doc) ==
    [title   |-> OrElse(TextOfAll(doc, Select(doc, Selector({"title"}, {}, {}, {}))),
                        OrElse(TextOf(FirstHTML(doc, Select(doc, Selector({"h1"}, {}, {}, {})))),
                               S_Untitled)),
     content |-> Remove(LoadFragment(
                            OrElse(FindContent(doc, 1),
                                   FirstHTML(doc, Select(doc, Selector({"body"}, {}, {}, {}))))),
                        NoiseAfter)]

extractMainContent(html) ==
    ExtractFrom(Remove(html, NoiseBefore))

(***************************************************************************)
(* The reader view of src/app/reader/page.tsx: the chapter segmentation    *)
(* (processedContent, chapters) and the sanitizer (sanitizedContent)       *)
(***************************************************************************)
MAX_CHAPTER_TITLE_LENGTH == 50

\* '\u0000PARAGRAPH_BREAK\u0000', one symbol
PARAGRAPH_BREAK_PLACEHOLDER == "\\0PARAGRAPH_BREAK\\0"

S_Chapter  == <<"C","h","a","p","t","e","r">>
S_Part     == <<"P","a","r","t">>
S_Ellipsis == <<".", ".", ".">>

\* the index of the first closing tag of that name after the first symbol, or 0
FirstClose(h, name) ==
    MinOrZero({ j \in 2..Len(h) : Info(h[j]).close /\ Info(h[j]).name = name })

\* .replace(/\r\n/g, '\n'); i is the index of the first \r\n
RECURSIVE NormalizeLineEndings(_)
NormalizeAt(s, i) ==
    IF i = 0 THEN s
    ELSE SubSeq(s, 1, i - 1) \o <<"\n">> \o NormalizeLineEndings(From(s, i + 2))

NormalizeLineEndings(s) ==
    NormalizeAt(s, MinOrZero({ i \in 1..(Len(s) - 1) : s[i] = "\r" /\ s[i + 1] = "\n" }))

\* the index of the last line feed in the white space that follows s[1], or 0
LastNewline(s, run) ==
    MaxOrZero({ j \in 2..(run + 1) : s[j] = "\n" })

\* the length of the match when only two adjacent line feeds are a break
BreakAt_adjacent(s, i) ==
    IF s[i] = "\n" /\ i < Len(s) /\ s[i + 1] = "\n" THEN 2 ELSE 0

\* the length of the match of /\n\s*\n/ at s[i], 0 when there is none
BreakAt(s, i) ==
    IF s[i] # "\n" THEN 0 ELSE LastNewline(From(s, i), SpaceRun(From(s, i + 1)))

\* .replace(/\n\s*\n/g, PARAGRAPH_BREAK_PLACEHOLDER); i is the index of the
\* first match
RECURSIVE MarkParagraphBreaks(_)
MarkFrom(s, i) ==
    IF i = 0 THEN s
    ELSE SubSeq(s, 1, i - 1) \o <<PARAGRAPH_BREAK_PLACEHOLDER>>
         \o MarkParagraphBreaks(From(s, i + BreakAt(s, i)))

MarkParagraphBreaks(s) ==
    MarkFrom(s, MinOrZero({ i \in 1..Len(s) : BreakAt(s, i) # 0 }))

\* .replace(/\n/g, ' ')
NewlinesToSpaces(s) ==
    [ i \in 1..Len(s) |-> IF s[i] = "\n" THEN " " ELSE s[i] ]

\* the index of the first character from s[i] on that is no space
SpacesEnd(s, i) ==
    Min({ j \in i..Len(s) : s[j] # " " } \cup {Len(s) + 1})

\* .replace(/  +/g, ' '); i is the index of the first match
RECURSIVE CollapseSpaces(_)
CollapseAt(s, i) ==
    IF i = 0 THEN s
    ELSE SubSeq(s, 1, i) \o CollapseSpaces(From(s, SpacesEnd(s, i)))

CollapseSpaces(s) ==
    CollapseAt(s, MinOrZero({ i \in 1..(Len(s) - 1) : s[i] = " " /\ s[i + 1] = " " }))

\* .replace(new RegExp(PARAGRAPH_BREAK_PLACEHOLDER, 'g'), '</p><br/><br/><p>');
\* i is the index of the first match
RECURSIVE ExpandParagraphBreaks(_)
ExpandAt(s, i) ==
    IF i = 0 THEN s
    ELSE SubSeq(s, 1, i - 1) \o <<"</p>", "<br/>", "<br/>", "<p>">>
         \o ExpandParagraphBreaks(From(s, i + 1))

ExpandParagraphBreaks(s) ==
    ExpandAt(s, MinOrZero({ i \in 1..Len(s) : s[i] = PARAGRAPH_BREAK_PLACEHOLDER }))

processedPre(preContent) ==
    ExpandParagraphBreaks(CollapseSpaces(NewlinesToSpaces(
        MarkParagraphBreaks(NormalizeLineEndings(preContent)))))

\* the longest prefix of s free of line feeds, of at most `most` characters
FirstLine(s, most) ==
    SubSeq(s, 1, Min({most, Len(s)} \cup { j - 1 : j \in { k \in 1..Len(s) : s[k] = "\n" } }))

\* `Chapter ${chapterIndex}`
DefaultTitle(chapterIndex) ==
    S_Chapter \o <<" ">> \o NumToString(chapterIndex, 10)

\* firstLineMatch ? firstLineMatch[1].trim() : `Chapter ${chapterIndex}`
TitleOfLine(firstLine, chapterIndex) ==
    IF firstLine # <<>> THEN Trim(firstLine) ELSE DefaultTitle(chapterIndex)

\* the title when the text of the pre block is not trimmed first
preChapterTitle_untrimmed(preContent, chapterIndex) ==
    TitleOfLine(FirstLine(preContent, MAX_CHAPTER_TITLE_LENGTH), chapterIndex)

\* the title of the chapter made of a pre block
preChapterTitle(preContent, chapterIndex) ==
    TitleOfLine(FirstLine(Trim(preContent), MAX_CHAPTER_TITLE_LENGTH), chapterIndex)

\* what a replace has made so far: the HTML, the chapters, the chapter index
Replaced(html, chapterList, chapterIndex) ==
    [html |-> html, chapters |-> chapterList, chapterIndex |-> chapterIndex]

\* the chapter a pre block becomes
PreChapter(index, chapterTitle, preContent) ==
    <<ChapterTag(index), "<h2>">> \o chapterTitle \o <<"</h2>", "<p>">>
    \o processedPre(preContent) \o <<"</p>", "</div>">>

\* one match of the first replace: the pre block that ends at `end` becomes
\* chapter `index`
PreMatch(done, index, chapterTitle, preContent) ==
    Replaced(done.html \o PreChapter(index, chapterTitle, preContent),
             Append(done.chapters, [id |-> ChapterId(index), title |-> chapterTitle]),
             index)

\* the index of the first opening tag of that name that a closing tag
\* follows, or 0: where the lazy match of <name ...>...</name> starts
FirstElement(h, name) ==
    MinOrZero({ i \in 1..Len(h) : /\ OpenInfo(Info(h[i]))
                                  /\ Info(h[i]).name = name
                                  /\ FirstClose(From(h, i), name) # 0 })

\* what a replace has made when it has gone over `text` without a match
Kept(done, text) ==
    [done EXCEPT !.html = @ \o text]

\* the first replace: every <pre ...>...</pre> becomes a chapter; `done` is
\* what the replace has made of the text before h, i the index of the first
\* match in h, `end` the index of its closing tag in the text from i on
RECURSIVE htmlWithPreChapters(_, _)
PreBlock(h, done, end, preContent) ==
    htmlWithPreChapters(
        From(h, end + 1),
        PreMatch(done, done.chapterIndex + 1,
                 preChapterTitle(preContent, done.chapterIndex + 1), preContent))

PreFrom(h, done, end) ==
    PreBlock(h, done, end, SubSeq(h, 2, end - 1))

PreAt(h, done, i) ==
    IF i = 0 THEN Kept(done, h)
    ELSE PreFrom(From(h, i), Kept(done, SubSeq(h, 1, i - 1)),
                 FirstClose(From(h, i), "pre"))

htmlWithPreChapters(h, done) ==
    PreAt(h, done, FirstElement(h, "pre"))

\* the characters after the word Chapter or Part that starts text, <<>> when
\* neither does
AfterWord(text, low) ==
    IF StartsWith(low, ToLowerCase(S_Chapter)) THEN From(text, Len(S_Chapter) + 1)
    ELSE IF StartsWith(low, ToLowerCase(S_Part)) THEN From(text, Len(S_Part) + 1)
    ELSE <<>>

\* \s+\d
SpacesThenDigit(after, spaces) ==
    /\ spaces >= 1
    /\ Len(after) > spaces
    /\ IsDigit(after[spaces + 1])

SpacedDigit(after) ==
    SpacesThenDigit(after, SpaceRun(after))

\* the pattern without what follows the word
chapterPattern_anyWord(text) ==
    AfterWord(text, ToLowerCase(text)) # <<>>

\* /^(?:Chapter|Part)\s+\d+/i
chapterPattern(text) ==
    SpacedDigit(AfterWord(text, ToLowerCase(text)))

\* the title of the chapter made of a paragraph
markerChapterTitle(textContent) ==
    IF Len(textContent) > MAX_CHAPTER_TITLE_LENGTH
    THEN SubSeq(textContent, 1, MAX_CHAPTER_TITLE_LENGTH) \o S_Ellipsis
    ELSE textContent

\* one match of the second replace whose text starts as a chapter heading
MarkerMatch(done, index, pContent, textContent) ==
    Replaced(done.html \o <<ChapterTag(index), "<p>">> \o pContent \o <<"</p>", "</div>">>,
             Append(done.chapters,
                    [id |-> ChapterId(index), title |-> markerChapterTitle(textContent)]),
             index)

\* the second replace: every <p ...>...</p> whose text starts as a chapter
\* heading is wrapped in a chapter; `done` is what the replace has made of the
\* text before h, i the index of the first match in h, `end` the index of its
\* closing tag in the text from i on
RECURSIVE htmlContent(_, _)
Paragraph(h, done, end, pContent, textContent) ==
    htmlContent(
        From(h, end + 1),
        IF chapterPattern(textContent)
        THEN MarkerMatch(done, done.chapterIndex + 1, pContent, textContent)
        ELSE Kept(done, SubSeq(h, 1, end)))

ParagraphFrom(h, done, end) ==
    Paragraph(h, done, end, SubSeq(h, 2, end - 1), Trim(TextOf(SubSeq(h, 2, end - 1))))

ParagraphAt(h, done, i) ==
    IF i = 0 THEN Kept(done, h)
    ELSE ParagraphFrom(From(h, i), Kept(done, SubSeq(h, 1, i - 1)),
                       FirstClose(From(h, i), "p"))

htmlContent(h, done) ==
    ParagraphAt(h, done, FirstElement(h, "p"))

\* the second replace with a chapter index of its own
WithMarkers_reset(pre) ==
    htmlContent(pre.html, Replaced(<<>>, pre.chapters, 0))

\* the second replace on what the first has made
WithMarkers(pre) ==
    htmlContent(pre.html, Replaced(<<>>, pre.chapters, pre.chapterIndex))

\* the useMemo of processedContent and chapters, for a loaded content
Processed(stored) ==
    WithMarkers(htmlWithPreChapters(stored, Replaced(<<>>, <<>>, 0)))

processedContent(stored) ==
    Processed(stored).html

chapters(stored) ==
    Processed(stored).chapters

ALLOWED_TAGS ==
    {"p", "br", "strong", "em", "u", "h1", "h2", "h3", "h4", "h5", "h6", "ul",
     "ol", "li", "a", "blockquote", "code", "img", "div", "span"}

ALLOWED_ATTR ==
    {"href", "src", "alt", "title", "class", "id"}

\* the elements DOMPurify removes with their content, when not allowed
FORBID_CONTENTS ==
    {"head", "title", "script", "style", "iframe"}

\* the attribute names of the model that DOMPurify's ARIA_ATTR (/^aria-[\-\w]+$/)
\* matches; ALLOW_ARIA_ATTR is not in the configuration and defaults to true
ARIA_ATTR ==
    {"aria-label"}

\* what is left of a tag: the attributes of ALLOWED_ATTR, and the aria-* ones
CleanInfo(info) ==
    [info EXCEPT !.attrs = @ \cap (ALLOWED_ATTR \cup ARIA_ATTR), !.role = ""]

CleanIn(table, t) ==
    IF table[t].close THEN t
    ELSE CHOOSE c \in DOMAIN table : table[c] = CleanInfo(table[t])

\* the tag as DOMPurify leaves it
CleanOf ==
    [ t \in TagSet |-> CleanIn(TagInfo, t) ]

\* a symbol DOMPurify keeps, as it leaves it
CleanSymbol(t) ==
    IF IsTag(t) THEN CleanOf[t] ELSE t

\* the indexes of the tags of elements that are not allowed
Unwanted(h) ==
    { i \in 1..Len(h) : IsTag(h[i]) /\ Info(h[i]).name \notin ALLOWED_TAGS }

\* DOMPurify.sanitize(html, { ALLOWED_TAGS, ALLOWED_ATTR, ALLOW_DATA_ATTR:
\* false }) of well-nested html: an element that is not allowed goes, with its
\* content if it is one of FORBID_CONTENTS and leaving its content otherwise;
\* i is the index of the first tag that is not allowed
RECURSIVE Sanitize(_)
SanitizeTag(h, i, info) ==
    IF ~info.close /\ info.name \in FORBID_CONTENTS
    THEN Sanitize(From(h, EndOf(h, i) + 1))
    ELSE Sanitize(From(h, i + 1))

SanitizeAt(h, i) ==
    IF i = 0 THEN [ k \in 1..Len(h) |-> CleanSymbol(h[k]) ]
    ELSE [ k \in 1..(i - 1) |-> CleanSymbol(h[k]) ] \o SanitizeTag(h, i, Info(h[i]))

Sanitize(h) ==
    SanitizeAt(h, MinOrZero(Unwanted(h)))

sanitizedContent(processed) ==
    IF processed = <<>> THEN <<>> ELSE Sanitize(processed)

(***************************************************************************)
(* State                                                                   *)
(***************************************************************************)
VARIABLES
    vIn,        \* validator: the URL handed to validateURL, and how it was written
    vOut,       \* validator: what validateURL returned
    route,      \* server: the route module that serves /api/fetch
    storage,    \* server: the module's Map from id to record
    now,        \* server: the last reading of Date.now()
    req,        \* server: each ingestion request: where its handler stands, its body
    resp,       \* server: each ingestion request's response
    calls,      \* server: each ingestion request's number of outbound fetch calls
    upstream,   \* server: what the upstream did to each request's fetch
    got,        \* server: the last read request and its response
    view,       \* reader: the module that renders /reader
    reader,     \* reader: the state of the ReaderContent component
    rendered,   \* reader: what the component's last render put on screen
    hIn,        \* functions on HTML: the input handed to one of them
    hOut,       \* functions on HTML: what it returned
    clock,      \* login gate: Date.now(), in milliseconds
    session,    \* login gate: the last answer of POST /api/auth/login
    gate        \* login gate: the last request and what became of it

validateVars == <<vIn, vOut>>

serverVars == <<route, storage, now, req, resp, calls, upstream, got>>

readerVars == <<view, reader, rendered>>

htmlVars == <<hIn, hOut>>

gateVars == <<clock, session, gate>>

vars == <<vIn, vOut, route, storage, now, req, resp, calls, upstream, got,
          view, reader, rendered, hIn, hOut,
         clock, session, gate>>

\* no function on HTML is under test
NoHtml ==
    [kind |-> "none", html |-> <<>>]

\* `again` is the chapter list of a second evaluation of the useMemo
NotCalled ==
    [called |-> "none", title |-> <<>>, html |-> <<>>, chapters |-> <<>>,
     twice |-> FALSE, again |-> <<>>]

HtmlIdle ==
    /\ hIn = NoHtml
    /\ hOut = NotCalled

\* no login yet: no answer, no cookie
NoSession ==
    [status |-> 0, cookie |-> FALSE, value |-> <<>>]

NoRequest ==
    [pathname |-> <<>>, search |-> <<>>, cookie |-> FALSE, value |-> <<>>]

NoAnswer ==
    [kind |-> "none", to |-> <<>>, from |-> <<>>]

\* no request has come in yet
NoGate ==
    [request |-> NoRequest, at |-> 0, response |-> NoAnswer]

GateIdle ==
    /\ clock = 0
    /\ session = NoSession
    /\ gate = NoGate

(***************************************************************************)
(* The fetch route: POST (ingestion) and GET (read) over the module's      *)
(* store.  Two modules of the repository implement it: the one of          *)
(* src/unnamed/part_000 ("fetch") and the one in the second half of        *)
(* src/app/api/auth/login/route.ts ("variant"); a process runs one.        *)
(***************************************************************************)
MaxReqs  == 2
MaxClock == 1

Reqs == 1..MaxReqs

Routes == {"fetch", "variant"}

\* 'Demo Article: The Art of Reading'
S_demoTitle ==
    <<"D","e","m","o"," ","A","r","t","i","c","l","e",":"," ","T","h","e"," ",
      "A","r","t"," ","o","f"," ","R","e","a","d","i","n","g">>

\* ' (Demo - Fetch Failed)'
S_fetchFailed ==
    <<" ","(","D","e","m","o"," ","-"," ","F","e","t","c","h"," ",
      "F","a","i","l","e","d",")">>

\* getDemoContent(): the built-in document, its text cut short.  The one of
\* the fetch module holds preformatted chapters, the variant's holds none.
getDemoContent(r) ==
    [title   |-> S_demoTitle,
     content |->
        IF r = "fetch"
        THEN <<"\n", "<h2>", "I", "n", "t", "r", "o", "</h2>", "\n",
               "<p>", "R", "e", "a", "d", ".", "</p>", "\n",
               "<pre>", "\n", "C", "h", "a", "p", "t", "e", "r", " ", "O", "n", "e", "\n",
               "a", "\n", "b", "\n", "\n", "c", "\n", "</pre>", "\n",
               "<p>", "H", "a", "p", "p", "y", "</p>", "\n">>
        ELSE <<"\n", "<h2>", "I", "n", "t", "r", "o", "</h2>", "\n",
               "<p>", "R", "e", "a", "d", ".", "</p>", "\n",
               "<p>", "H", "a", "p", "p", "y", "</p>", "\n">>]

\* Math.random().toString(36): "0" for 0, else "0." and the base-36 digits
RandomStrings ==
    { <<"0">>,
      <<"0", ".", "k">>,
      <<"0", ".", "a", "b", "c", "d", "e", "f", "g", "h", "i", "j", "k", "l", "m", "n">> }

\* String.prototype.substring(a, b) with 0 <= a <= b
Substring(str, a, b) ==
    SubSeq(str, a + 1, IF b < Len(str) THEN b ELSE Len(str))

generateId(random) ==
    Substring(random, 2, 15)

\* the request bodies: unreadable JSON, no url (absent or empty), a url
S_site == <<"s","i","t","e",".","o","r","g">>
HTTP   == S_http \o <<":", "/", "/">>

ServerURLs ==
    { HTTP \o S_site \o <<"/", "a">>,
      HTTP \o S_site \o <<"/", "D", "e", "m", "o">>,
      HTTP \o <<"a", ".">> \o S_example,
      HTTP \o <<"E","X","A","M","P","L","E",".","C","O","M","/">>,
      HTTP \o S_loopback4 \o <<"/", "d", "e", "m", "o">>,
      HTTP \o <<"1","6","9",".","2","5","4",".","1","6","9",".","2","5","4","/">>,
      S_site }

PostBodies ==
    { [kind |-> "malformed", url |-> <<>>], [kind |-> "nourl", url |-> <<>>] }
    \cup { [kind |-> "url", url |-> u] : u \in ServerURLs }

\* what the upstream answers to fetch(): a transport failure or a status
UpstreamStatuses ==
    {200, 304, 404}

FetchOutcomes ==
    { [throws |-> TRUE, status |-> 0] }
    \cup { [throws |-> FALSE, status |-> st] : st \in UpstreamStatuses }

\* what response.text() yields: a transport failure or a document
Docs ==
    { <<"<html>", "<head>", "<title>", "T", "1", "</title>", "</head>", "<body>",
        "<nav>", "n", "</nav>", "<p onclick=\"x()\">", "h", "i", "</p>",
        "<script>", "x", "</script>", "</body>", "</html>">>,
      <<"<html>", "<head>", "</head>", "<body>",
        "<header>", "<h1>", "H", "</h1>", "</header>",
        "<pre>", "C", "h", "a", "p", "t", "e", "r", " ", "2", "\n", "x", "</pre>",
        "</body>", "</html>">> }

\* what the two statements after fetch() do: response.text() fails at
\* transport level, or it yields a document that extractMainContent returns
\* from, or one on which it throws (cheerio walks the tree recursively: a
\* document nested deeper than the stack allows ends in a RangeError)
TextOutcomes ==
    { [throws |-> TRUE, unparsable |-> FALSE, html |-> <<>>],
      [throws |-> FALSE, unparsable |-> TRUE, html |-> <<>>] }
    \cup { [throws |-> FALSE, unparsable |-> FALSE, html |-> d] : d \in Docs }

\* what is known of the upstream's answer to a request: nothing yet, a
\* transport failure of fetch() ("failed"), a status ("answered"), and after
\* response.text() a body that is extracted ("read"), a body on which the
\* extractor throws ("unparsed") or a transport failure ("cut")
NoUpstream ==
    [kind |-> "none", status |-> 0, html |-> <<>>]

Settled(o) ==
    IF o.throws THEN [kind |-> "failed", status |-> 0, html |-> <<>>]
    ELSE [kind |-> "answered", status |-> o.status, html |-> <<>>]

\* response.ok
ResponseOk(status) ==
    status >= 200 /\ status <= 299

\* the statuses a Response with a body cannot have (Fetch standard)
NullBodyStatus ==
    {101, 103, 204, 205, 304}

\* NextResponse.json(body, { status }) throws for a status outside 200..599
\* and for a null body status
JsonThrows(status) ==
    status < 200 \/ status > 599 \/ status \in NullBodyStatus

ErrRequired == "URL is required"
ErrInvalid  == "Invalid URL"
ErrUpstream == "Failed to fetch URL: <statusText>"
ErrInternal == "Failed to fetch and parse URL"
ErrIdNeeded == "ID is required"
ErrNotFound == "Content not found"

NoResponse ==
    [status |-> 0, error |-> "", hasId |-> FALSE, id |-> <<>>, title |-> <<>>]

ErrorResponse(status, error) ==
    [status |-> status, error |-> error, hasId |-> FALSE, id |-> <<>>, title |-> <<>>]

\* NextResponse.json({ id, title })
OkResponse(id, title) ==
    [status |-> 200, error |-> "", hasId |-> TRUE, id |-> id, title |-> title]

NoRecord ==
    [url |-> <<>>, title |-> <<>>, content |-> <<>>, timestamp |-> -1]

EmptyStore ==
    [ k \in {} |-> NoRecord ]

\* Map.prototype.set
MapSet(map, key, value) ==
    [ k \in DOMAIN map \cup {key} |-> IF k = key THEN value ELSE map[k] ]

\* the validation each module makes of url
Validation(r, url) ==
    IF r = "fetch" THEN validateURL(url)
    ELSE IF ParseURL(url).ok THEN [valid |-> TRUE, error |-> NoError]
    ELSE [valid |-> FALSE, error |-> ErrInvalid]

\* the demo rule of each module
IsDemoURL(r, url) ==
    IF r = "fetch"
    THEN LET parsedUrl == ParseURL(url)
         IN  \/ Includes(ToLowerCase(url), S_demo)
             \/ parsedUrl.hostname = S_example
             \/ EndsWith(parsedUrl.hostname, <<".">> \o S_example)
    ELSE \/ Includes(ToLowerCase(url), S_demo)
         \/ Includes(url, S_example)

\* a response that ends the handler and leaves the store alone
Respond(r, status, error) ==
    /\ resp' = [resp EXCEPT ![r] = ErrorResponse(status, error)]
    /\ req' = [req EXCEPT ![r].pc = "done"]
    /\ UNCHANGED <<storage, now>>

\* "Store the content": generateId, storage.set with Date.now(), the 200 response
StoreUnder(r, id, t, title, content) ==
    /\ storage' = MapSet(storage, id,
                         [url       |-> req[r].body.url,
                          title     |-> title,
                          content   |-> content,
                          timestamp |-> t])
    /\ now' = t
    /\ resp' = [resp EXCEPT ![r] = OkResponse(id, title)]
    /\ req' = [req EXCEPT ![r].pc = "done"]

StoreContent(r, title, content) ==
    \E random \in RandomStrings, t \in now..MaxClock :
        StoreUnder(r, generateId(random), t, title, content)

\* the inner catch: the demo content under the title marked as a failed fetch
FallbackTo(r, demo) ==
    StoreContent(r, demo.title \o S_fetchFailed, demo.content)

Fallback(r) ==
    FallbackTo(r, getDemoContent(route))

\* a POST request arrives: the handler starts and awaits request.json()
POST(r, body) ==
    /\ req[r].pc = "idle"
    /\ req' = [req EXCEPT ![r] = [pc |-> "json", body |-> body]]
    /\ UNCHANGED <<route, storage, now, resp, calls, upstream, got>>

\* the handler from the demo rule to its fetch() call or its end
Ingest(r, demo) ==
    IF IsDemoURL(route, req[r].body.url)
    THEN StoreContent(r, demo.title, demo.content) /\ UNCHANGED calls
    ELSE /\ req' = [req EXCEPT ![r].pc = "fetch"]
         /\ calls' = [calls EXCEPT ![r] = @ + 1]
         /\ UNCHANGED <<storage, now, resp>>

\* the handler from the validation of url on
Validated(r, validation) ==
    IF ~validation.valid
    THEN Respond(r, 400, validation.error) /\ UNCHANGED calls
    ELSE Ingest(r, getDemoContent(route))

\* the handler from the body of the request on
Received(r, body) ==
    IF body.kind = "malformed"
    THEN Respond(r, 500, ErrInternal) /\ UNCHANGED calls
    ELSE IF body.kind = "nourl"
         THEN Respond(r, 400, ErrRequired) /\ UNCHANGED calls
    ELSE Validated(r, Validation(route, body.url))

\* request.json() settles: the handler runs up to its fetch() call or its end
POST_json(r) ==
    /\ req[r].pc = "json"
    /\ Received(r, req[r].body)
    /\ UNCHANGED <<route, upstream, got>>

\* fetch() settles: a transport failure, a status that is not ok, or a response
POST_fetch(r, o) ==
    /\ req[r].pc = "fetch"
    /\ IF o.throws
       THEN Fallback(r)
       ELSE IF ~ResponseOk(o.status)
            THEN IF JsonThrows(o.status)
                 THEN Fallback(r)
                 ELSE Respond(r, o.status, ErrUpstream)
       ELSE /\ req' = [req EXCEPT ![r].pc = "text"]
            /\ UNCHANGED <<storage, now, resp>>
    /\ upstream' = [upstream EXCEPT ![r] = Settled(o)]
    /\ UNCHANGED <<route, calls, got>>

StoreExtracted(r, extracted) ==
    StoreContent(r, extracted.title, extracted.content)

\* how response.text() and extractMainContent ended
Body(o) ==
    IF o.throws THEN "cut" ELSE IF o.unparsable THEN "unparsed" ELSE "read"

\* response.text() settles: a transport failure or the document, which is
\* extracted and stored; a throw of either is caught by the inner catch
POST_text(r, o) ==
    /\ req[r].pc = "text"
    /\ IF o.throws \/ o.unparsable
       THEN Fallback(r)
       ELSE StoreExtracted(r, extractMainContent(o.html))
    /\ upstream' = [upstream EXCEPT ![r].kind = Body(o), ![r].html = o.html]
    /\ UNCHANGED <<route, calls, got>>

\* the ?id= of a read request: absent, or a string
Queries ==
    { [present |-> FALSE, id |-> <<>>] }
    \cup { [present |-> TRUE, id |-> generateId(random)] : random \in RandomStrings }
    \cup { [present |-> TRUE, id |-> <<"n", "o", "n", "e">>] }

NotAsked ==
    [asked |-> FALSE, query |-> [present |-> FALSE, id |-> <<>>],
     status |-> 0, error |-> "", data |-> NoRecord]

GETResponse(map, q) ==
    IF ~q.present \/ q.id = <<>>
    THEN [status |-> 400, error |-> ErrIdNeeded, data |-> NoRecord]
    ELSE IF q.id \notin DOMAIN map
         THEN [status |-> 404, error |-> ErrNotFound, data |-> NoRecord]
    ELSE [status |-> 200, error |-> "", data |-> map[q.id]]

\* a GET request: the handler runs to its end without suspending
GET(q) ==
    /\ got' = [asked |-> TRUE, query |-> q] @@ GETResponse(storage, q)
    /\ UNCHANGED <<route, storage, now, req, resp, calls, upstream>>

IdleRequest ==
    [pc |-> "idle", body |-> [kind |-> "nourl", url |-> <<>>]]

ServerIdle ==
    /\ storage = EmptyStore
    /\ now = 0
    /\ req = [ r \in Reqs |-> IdleRequest ]
    /\ resp = [ r \in Reqs |-> NoResponse ]
    /\ calls = [ r \in Reqs |-> 0 ]
    /\ upstream = [ r \in Reqs |-> NoUpstream ]
    /\ got = NotAsked

ValidatorIdle ==
    /\ vIn = [url |-> <<>>, scheme |-> "none", kind |-> "broken", suffix |-> TRUE,
              addr |-> <<>>]
    /\ vOut = [done |-> TRUE, valid |-> FALSE, error |-> ErrFormat]

(***************************************************************************)
(* The reader views: ReaderContent of src/app/reader/page.tsx ("page") and *)
(* of src/unnamed/part_001 ("part_001")                                    *)
(***************************************************************************)
Views == {"page", "part_001"}

AVAILABLE_FONTS == {"Garamond", "Georgia", "Palatino", "Iowan"}
DEFAULT_FONT    == "Garamond"

MinFontSize     == 12
MaxFontSize     == 32
DefaultFontSize == 18
FontSizeStep    == 2

\* the records a read of the fetch route can return
Article(title, content) ==
    [url |-> HTTP \o S_site \o <<"/", "a">>, title |-> title, content |-> content]

ArticleOf(extracted) ==
    Article(extracted.title, extracted.content)

Articles ==
    { ArticleOf(getDemoContent(r)) : r \in Routes }
    \cup { ArticleOf(extractMainContent(d)) : d \in Docs }
    \cup { Article(S_Untitled,
                   <<"<p onclick=\"x()\">", "P", "a", "r", "t", " ", "1", "</p>",
                     "<img src=\"u\" onerror=\"x()\">", "<script>", "x", "</script>",
                     "<p>", "e", "n", "d", "</p>">>),
           Article(S_Untitled, <<>>) }

NoArticle ==
    [url |-> <<>>, title |-> <<>>, content |-> <<>>]

\* the component after its first render
Mounted(hasId) ==
    [hasId      |-> hasId,
     loaded     |-> FALSE,
     content    |-> NoArticle,
     loading    |-> TRUE,
     error      |-> "",
     fontSize   |-> DefaultFontSize,
     fontFamily |-> DEFAULT_FONT]

\* what a render puts on screen: the loading screen, the error screen, or the
\* article, whose body is handed over as dangerouslySetInnerHTML.__html
Render(v, rd) ==
    IF rd.loading THEN [screen |-> "loading", html |-> <<>>]
    ELSE IF rd.error # "" \/ ~rd.loaded \/ ~rd.hasId
         THEN [screen |-> "error", html |-> <<>>]
    ELSE [screen |-> "article",
          html   |-> IF v = "page"
                     THEN sanitizedContent(processedContent(rd.content.content))
                     ELSE rd.content.content]

\* the fetch of the first effect resolves with a record
Loaded(data) ==
    /\ reader.hasId /\ reader.loading
    /\ reader' = [reader EXCEPT !.loaded = TRUE, !.content = data, !.loading = FALSE]
    /\ rendered' = Render(view, reader')
    /\ UNCHANGED view

\* the fetch of the first effect fails, or its answer is not ok
LoadFailed ==
    /\ reader.hasId /\ reader.loading
    /\ reader' = [reader EXCEPT !.error = "Failed to load content", !.loading = FALSE]
    /\ rendered' = Render(view, reader')
    /\ UNCHANGED view

Clamp(n) ==
    IF n < MinFontSize THEN MinFontSize
    ELSE IF n > MaxFontSize THEN MaxFontSize
    ELSE n

handleFontSizeChange(delta) ==
    /\ rendered.screen = "article"
    /\ reader' = [reader EXCEPT !.fontSize = Clamp(reader.fontSize + delta)]
    /\ rendered' = Render(view, reader')
    /\ UNCHANGED view

handleFontFamilyChange(font) ==
    /\ rendered.screen = "article"
    /\ view = "page"
    /\ reader' = [reader EXCEPT !.fontFamily = font]
    /\ rendered' = Render(view, reader')
    /\ UNCHANGED view

ReaderIdle ==
    /\ view = "page"
    /\ reader = Mounted(FALSE)
    /\ rendered = Render("page", Mounted(FALSE))

InitReader ==
    /\ view \in Views
    /\ \E hasId \in BOOLEAN :
           /\ reader = Mounted(hasId)
           /\ rendered = Render(view, Mounted(hasId))
    /\ route = "fetch"
    /\ ServerIdle
    /\ ValidatorIdle
    /\ HtmlIdle
    /\ GateIdle

NextReader ==
    \/ \E data \in Articles : Loaded(data) /\ UNCHANGED <<validateVars, serverVars, htmlVars, gateVars>>
    \/ LoadFailed /\ UNCHANGED <<validateVars, serverVars, htmlVars, gateVars>>
    \/ \E delta \in {-FontSizeStep, FontSizeStep} :
           handleFontSizeChange(delta) /\ UNCHANGED <<validateVars, serverVars, htmlVars, gateVars>>
    \/ \E font \in AVAILABLE_FONTS :
           handleFontFamilyChange(font) /\ UNCHANGED <<validateVars, serverVars, htmlVars, gateVars>>

SpecReader ==
    InitReader /\ [][NextReader]_vars

Init ==
    /\ route \in Routes
    /\ ServerIdle
    /\ ValidatorIdle
    /\ ReaderIdle
    /\ HtmlIdle
    /\ GateIdle

Next ==
    \/ \E r \in Reqs, body \in PostBodies : POST(r, body) /\ UNCHANGED <<validateVars, readerVars, htmlVars, gateVars>>
    \/ \E r \in Reqs : POST_json(r) /\ UNCHANGED <<validateVars, readerVars, htmlVars, gateVars>>
    \/ \E r \in Reqs, o \in FetchOutcomes : POST_fetch(r, o) /\ UNCHANGED <<validateVars, readerVars, htmlVars, gateVars>>
    \/ \E r \in Reqs, o \in TextOutcomes : POST_text(r, o) /\ UNCHANGED <<validateVars, readerVars, htmlVars, gateVars>>
    \/ \E q \in Queries : GET(q) /\ UNCHANGED <<validateVars, readerVars, htmlVars, gateVars>>

Spec ==
    Init /\ [][Next]_vars

\* One ingestion from its request to its response, beside the reads, in the
\* module of src/unnamed/part_000.  The steps of a handler that wait for
\* nothing outside the process are taken once they can be.  fetch(url,
\* { headers }) is given no signal and no timeout (lines 213-217), so nothing
\* in the code makes fetch() or response.text() settle: those two steps get
\* no fairness.
InitLive ==
    /\ route = "fetch"
    /\ ServerIdle
    /\ ValidatorIdle
    /\ ReaderIdle
    /\ HtmlIdle
    /\ GateIdle

NextLive ==
    \/ \E body \in PostBodies : POST(1, body) /\ UNCHANGED <<validateVars, readerVars, htmlVars, gateVars>>
    \/ POST_json(1) /\ UNCHANGED <<validateVars, readerVars, htmlVars, gateVars>>
    \/ \E o \in FetchOutcomes : POST_fetch(1, o) /\ UNCHANGED <<validateVars, readerVars, htmlVars, gateVars>>
    \/ \E o \in TextOutcomes : POST_text(1, o) /\ UNCHANGED <<validateVars, readerVars, htmlVars, gateVars>>
    \/ \E q \in Queries : GET(q) /\ UNCHANGED <<validateVars, readerVars, htmlVars, gateVars>>

\* the step of the handler once request.json() has settled, by its effect on
\* the handler's position: POST_json(1) is enabled whenever the handler
\* stands at "json", and is the only step that moves it from there
Resumes ==
    /\ req[1].pc = "json"
    /\ req' \in { [req EXCEPT ![1].pc = pc] : pc \in {"fetch", "done"} }

Fairness ==
    WF_req(Resumes)

SpecLive ==
    InitLive /\ [][NextLive]_vars /\ Fairness

(***************************************************************************)
(* The validator on its own: validateURL applied to URLs written from      *)
(* their parts                                                             *)
(***************************************************************************)
MaxOctet == 255

\* an octet as the URL may spell it: decimal, octal (leading 0) or hexadecimal (0x)
FormatOctet(n, notation) ==
    IF notation = "oct" THEN <<"0">> \o NumToString(n, 8)
    ELSE IF notation = "hex" THEN <<"0", "x">> \o NumToString(n, 16)
    ELSE NumToString(n, 10)

FormatAddr(addr, notation) ==
    Join([ i \in 1..4 |-> FormatOctet(addr[i], notation) ], ".")

\* the ways a URL starts: the text, and the scheme it spells
Prefixes ==
    { [text |-> S_http \o <<":", "/", "/">>,                 scheme |-> "http"],
      [text |-> S_https \o <<":", "/", "/">>,                scheme |-> "http"],
      [text |-> <<"H","t","T","p",":","/","/">>,             scheme |-> "http"],
      [text |-> S_http \o <<":">>,                           scheme |-> "http"],
      [text |-> S_ftp \o <<":", "/", "/">>,                  scheme |-> "other"],
      [text |-> S_file \o <<":", "/", "/">>,                 scheme |-> "other"],
      [text |-> <<"g","o","p","h","e","r",":","/","/">>,     scheme |-> "other"],
      [text |-> S_data \o <<":">>,                           scheme |-> "other"],
      [text |-> <<>>,                                        scheme |-> "none"],
      [text |-> <<"/", "/">>,                                scheme |-> "none"],
      [text |-> <<"1","h","t","t","p",":","/","/">>,         scheme |-> "none"] }

\* the hosts: the text, what the host is, and the address it spells
NamedHosts ==
    { [text |-> S_localhost,                                         kind |-> "localhost"],
      [text |-> <<"L","o","c","a","l","H","O","S","T">>,             kind |-> "localhost"],
      [text |-> <<"u","@">> \o S_localhost,                          kind |-> "localhost"],
      [text |-> <<"[",":",":","1","]">>,                             kind |-> "loopback6"],
      [text |-> <<"[","0",":","0",":","0",":","0",":","0",":","0",":","0",":","1","]">>,
                                                                     kind |-> "loopback6"],
      [text |-> <<"[","0","0","0","0",":",":","0","0","0","1","]">>, kind |-> "loopback6"],
      [text |-> <<"[",":",":","2","]">>,                             kind |-> "public"],
      [text |-> S_example,                                           kind |-> "public"],
      [text |-> <<"s","i","t","e",".","o","r","g">>,                 kind |-> "public"],
      [text |-> <<"l","o","c","a","l","h","o","s","t",".","o","r","g">>, kind |-> "public"],
      [text |-> <<"[",":",":","1">>,                                 kind |-> "broken"],
      [text |-> <<"a","^","b">>,                                     kind |-> "broken"],
      [text |-> <<"1",".","2",".","3",".","4",".","5">>,             kind |-> "broken"],
      [text |-> <<>>,                                                kind |-> "broken"] }

\* what follows the host
Suffixes ==
    { [text |-> <<>>,                                ok |-> TRUE],
      [text |-> <<"/">>,                             ok |-> TRUE],
      [text |-> <<":","8","0","8","0","/","x">>,     ok |-> TRUE],
      [text |-> <<"/","d","e","m","o">>,             ok |-> TRUE],
      [text |-> <<":","9","9","9","9","9","/">>,     ok |-> FALSE],
      [text |-> <<":","x","/">>,                     ok |-> FALSE] }

NoAddr == <<>>

NamedInputs ==
    { [url    |-> p.text \o h.text \o s.text,
       scheme |-> p.scheme,
       kind   |-> h.kind,
       suffix |-> s.ok,
       addr   |-> NoAddr] : p \in Prefixes, h \in NamedHosts, s \in Suffixes }

\* each of the first two octets sweeps its whole range in decimal against the
\* edges of the private blocks; the other notations are tried on the edges
EdgeOctets ==
    {0, 9, 10, 11, 15, 16, 17, 31, 32, 126, 127, 128, 167, 168, 169, 172, 192, 254, 255}

BlockOctets ==
    {10, 127, 169, 172, 192}

HttpPrefix ==
    [text |-> S_http \o <<":", "/", "/">>, scheme |-> "http"]

EdgePrefixes ==
    { HttpPrefix,
      [text |-> S_https \o <<":", "/", "/">>, scheme |-> "http"],
      [text |-> S_ftp \o <<":", "/", "/">>,   scheme |-> "other"] }

AddrInput(prefix, addr, notation) ==
    [url    |-> prefix.text \o FormatAddr(addr, notation) \o <<"/">>,
     scheme |-> prefix.scheme,
     kind   |-> "ipv4",
     suffix |-> TRUE,
     addr   |-> addr]

AddrInputs ==
    { AddrInput(HttpPrefix, <<a, b, 0, 1>>, "dec") :
          a \in 0..MaxOctet, b \in EdgeOctets }
    \cup
    { AddrInput(HttpPrefix, <<a, b, 0, 1>>, "dec") :
          a \in BlockOctets, b \in 0..MaxOctet }
    \cup
    { AddrInput(p, <<a, b, 255, 7>>, n) :
          p \in EdgePrefixes, a \in EdgeOctets, b \in EdgeOctets, n \in {"dec", "oct", "hex"} }

NotValidated ==
    [done |-> FALSE, valid |-> FALSE, error |-> NoError]

InitValidate ==
    /\ vIn \in NamedInputs \cup AddrInputs
    /\ vOut = NotValidated
    /\ route = "fetch"
    /\ ServerIdle
    /\ ReaderIdle
    /\ HtmlIdle
    /\ GateIdle

\* one call of validateURL
Validate ==
    /\ ~vOut.done
    /\ vOut' = [done |-> TRUE] @@ validateURL(vIn.url)
    /\ UNCHANGED vIn
    /\ UNCHANGED <<serverVars, readerVars, htmlVars, gateVars>>

NextValidate ==
    Validate

SpecValidate ==
    InitValidate /\ [][NextValidate]_vars

(***************************************************************************)
(* The functions on HTML (extractMainContent, the chapter segmentation,    *)
(* the sanitizer), each applied once to an input of its own.               *)
(***************************************************************************)
MaxFragments == 2

\* the strings made of at most n of the fragments of S
RECURSIVE Concats(_, _)
Longer(S, shorter) ==
    shorter \cup { a \o b : a \in shorter, b \in S }

Concats(S, n) ==
    IF n = 0 THEN {<<>>} ELSE Longer(S, Concats(S, n - 1))

\* what extractMainContent returned
Extracted(extracted) ==
    [NotCalled EXCEPT !.called = "extractMainContent",
                      !.title = extracted.title, !.html = extracted.content]

\* fragments a hostile page is made of
HostileFragments ==
    { <<"<script>", "x", "</script>">>,
      <<"<p onclick=\"x()\">", "t", "</p>">>,
      <<"<p style=\"x\">", "t", "</p>">>,
      <<"<p data-k=\"v\">", "t", "</p>">>,
      <<"<p aria-label=\"x\">", "t", "</p>">>,
      <<"<img src=\"u\" onerror=\"x()\">">>,
      <<"<a href=\"u\">", "t", "</a>">>,
      <<"<form>", "t", "</form>">>,
      <<"<iframe>", "</iframe>">>,
      <<"<div class=\"ad\">", "<style>", "x", "</style>", "t", "</div>">>,
      <<"<div role=\"main\">", "t", "</div>">> }

SanitizerInputs ==
    { [kind |-> "processed", html |-> h] : h \in Concats(HostileFragments, MaxFragments) }

\* n characters of text
Filler(n) ==
    [ i \in 1..n |-> "x" ]

\* text just over the threshold of the content search, at it, and over its half
LongText  == Filler(MinTextLength + 1)
EdgeText  == Filler(MinTextLength)
HalfText  == Filler((MinTextLength \div 2) + 1)

\* what the head of a fetched document holds: no title, a title, an empty one
Heads ==
    { <<>>, <<"<title>", "T", "</title>">>, <<"<title>", "</title>">> }

\* the bodies of the fetched documents
Bodies ==
    { <<"<h1>", "H", "</h1>", "<p>", "h", "i", "</p>">>,
      <<"<header>", "<h1>", "H", "</h1>", "</header>", "<p>", "h", "i", "</p>">>,
      <<"<p>", "h", "i", "</p>", "<h1>", "A", "</h1>", "<h1>", "B", "</h1>">>,
      <<"<article>">> \o LongText \o <<"</article>">>,
      <<"<article>">> \o EdgeText \o <<"</article>">>,
      <<"<article>", " ">> \o EdgeText \o <<"\n", "</article>", "<p>", "h", "i", "</p>">>,
      <<"<article>">> \o HalfText \o <<"</article>", "<p>", "h", "i", "</p>",
        "<article>", "b">> \o HalfText \o <<"</article>">>,
      <<"<main>", "m">> \o LongText \o <<"</main>", "<article>">> \o LongText \o <<"</article>">>,
      <<"<div class=\"content\">", "c">> \o LongText \o <<"</div>",
        "<div id=\"content\">">> \o LongText \o <<"</div>">>,
      <<"<div class=\"entry-content\">">> \o EdgeText \o <<"</div>",
        "<div role=\"main\">">> \o LongText \o <<"</div>">>,
      <<"<div class=\"post-content\">">> \o LongText \o <<"</div>",
        "<div class=\"article-content\">", "a">> \o LongText \o <<"</div>">>,
      <<"<div class=\"content\">">> \o LongText
        \o <<"<nav>", "n", "</nav>", "<div class=\"social-share\">", "s", "</div>",
             "<script>", "x", "</script>", "<div class=\"ad\">", "a", "</div>", "</div>">>,
      <<"<div class=\"advertisement\">", "a", "</div>", "<aside>", "s", "</aside>",
        "<p>", "h", "i", "</p>", "<footer>", "f", "</footer>", "<iframe>", "</iframe>",
        "<style>", "x", "</style>", "<div class=\"social-share\">", "s", "</div>">> }

Document(head, body) ==
    <<"<html>", "<head>">> \o head \o <<"</head>", "<body>">> \o body
    \o <<"</body>", "</html>">>

ExtractorInputs ==
    { [kind |-> "fetched", html |-> Document(head, body)] :
          head \in Heads, body \in Bodies }

\* what a stored article is made of: pre blocks with a short first line, with
\* white space and \r\n around it, without text, with a first line over, with
\* a space at, and exactly at the length a title may have, with blank lines
\* and runs of spaces, and a paragraph
PreBlocks ==
    { <<"<pre>", "T", "i", "\n", "b", "</pre>">>,
      <<"<pre>", "\n", " ", "T", " ", "\r", "\n", "b", "\r", "\n", "\r", "\n", "c", "</pre>">>,
      <<"<pre>", "</pre>">>,
      <<"<pre>", " ", "\n", " ", "</pre>">>,
      <<"<pre>">> \o Filler(MAX_CHAPTER_TITLE_LENGTH + 1) \o <<"</pre>">>,
      <<"<pre>">> \o Filler(MAX_CHAPTER_TITLE_LENGTH - 1) \o <<" ", "y", "\n", "z", "</pre>">>,
      <<"<pre>">> \o Filler(MAX_CHAPTER_TITLE_LENGTH) \o <<"\n", "\n", "z", "</pre>">>,
      <<"<pre>", "a", "\n", "b", "\n", "\n", "c", "</pre>">>,
      <<"<pre>", "a", " ", " ", "b", "\n", " ", "\n", "\n", "c", "\n", "d", "\n", "</pre>">>,
      <<"<p>", "h", "i", "</p>">> }

\* paragraphs whose text starts as a chapter heading or nearly does: in lower
\* and upper case, after a tab and after two spaces, with markup and an
\* attribute of their own, of 50 and of 51 characters, without a digit,
\* without white space, with the word further on; a paragraph that does not;
\* a pre block whose text starts as a chapter heading, and one whose does not
MarkerBlocks ==
    { <<"<p>", "C", "h", "a", "p", "t", "e", "r", " ", "1", "</p>">>,
      <<"<p>", "c", "h", "a", "p", "t", "e", "r", "\t", "2", " ", "x", "</p>">>,
      <<"<p>", "P", "A", "R", "T", " ", " ", "3", "</p>">>,
      <<"<p>", "C", "h", "a", "p", "t", "e", "r", "h", "o", "u", "s", "e", " ",
        "r", "u", "l", "e", "s", "</p>">>,
      <<"<p>", "C", "h", "a", "p", "t", "e", "r", " ", "o", "n", "e", "</p>">>,
      <<"<p>", "P", "a", "r", "t", "1", "</p>">>,
      <<"<p>", "x", " ", "P", "a", "r", "t", " ", "1", "</p>">>,
      <<"<p>", " ", "<strong>", "P", "a", "r", "t", "</strong>", " ", "4">>
        \o Filler(MAX_CHAPTER_TITLE_LENGTH - 5) \o <<"</p>">>,
      <<"<p>", "P", "a", "r", "t", " ", "5">>
        \o Filler(MAX_CHAPTER_TITLE_LENGTH - 6) \o <<"</p>">>,
      <<"<p class=\"lead\">", "<em>", "P", "a", "r", "t", "</em>", " ", "7", "</p>">>,
      <<"<p>", "h", "i", "</p>">>,
      <<"<pre>", "C", "h", "a", "p", "t", "e", "r", " ", "1", "\n", "x", "</pre>">>,
      <<"<pre>", "T", "\n", "b", "</pre>">> }

ContentInputs ==
    { [kind |-> "content", html |-> h] :
          h \in Concats(PreBlocks, MaxFragments) \cup Concats(MarkerBlocks, MaxFragments) }

HtmlInputs ==
    SanitizerInputs \cup ExtractorInputs \cup ContentInputs

\* what the useMemo of processedContent and chapters returned
Segmented(processed) ==
    [NotCalled EXCEPT !.called = "processedContent",
                      !.html = processed.html, !.chapters = processed.chapters]

\* one evaluation of the useMemo of processedContent and chapters
CallProcessedContent ==
    /\ hIn.kind = "content"
    /\ hOut.called = "none"
    /\ hOut' = Segmented(Processed(hIn.html))
    /\ UNCHANGED hIn
    /\ UNCHANGED <<validateVars, serverVars, readerVars, gateVars>>

\* one call of extractMainContent
CallExtractMainContent ==
    /\ hIn.kind = "fetched"
    /\ hOut.called = "none"
    /\ hOut' = Extracted(extractMainContent(hIn.html))
    /\ UNCHANGED hIn
    /\ UNCHANGED <<validateVars, serverVars, readerVars, gateVars>>

\* one evaluation of sanitizedContent
CallSanitizedContent ==
    /\ hIn.kind = "processed"
    /\ hOut.called = "none"
    /\ hOut' = [NotCalled EXCEPT !.called = "sanitizedContent",
                                 !.html = sanitizedContent(hIn.html)]
    /\ UNCHANGED hIn
    /\ UNCHANGED <<validateVars, serverVars, readerVars, gateVars>>

\* the useMemo evaluated once more on the same content (chapterList and
\* chapterIndex are locals of the callback)
CallProcessedContentAgain ==
    /\ hIn.kind = "content"
    /\ hOut.called = "processedContent"
    /\ ~hOut.twice
    /\ hOut' = [hOut EXCEPT !.twice = TRUE, !.again = chapters(hIn.html)]
    /\ UNCHANGED hIn
    /\ UNCHANGED <<validateVars, serverVars, readerVars, gateVars>>

InitHtml ==
    /\ hIn \in HtmlInputs
    /\ hOut = NotCalled
    /\ route = "fetch"
    /\ ServerIdle
    /\ ValidatorIdle
    /\ ReaderIdle
    /\ GateIdle

NextHtml ==
    \/ CallSanitizedContent
    \/ CallExtractMainContent
    \/ CallProcessedContent
    \/ CallProcessedContentAgain

SpecHtml ==
    InitHtml /\ [][NextHtml]_vars

(***************************************************************************)
(* The login gate: the middleware of src/middleware.ts and the login route *)
(* of src/app/api/auth/login/route.ts.  A token is a string of symbols:    *)
(* the 64 hex digits of randomBytes(32) are one symbol, so are those of a  *)
(* signature; the time stamp is written digit by digit.                    *)
(***************************************************************************)
\* process.env.TOKEN_SECRET || 'default-secret-change-in-production', the
\* same in both modules
TOKEN_SECRET == "default-secret-change-in-production"

EXPECTED_USERNAME == "abc"

EXPECTED_PASSWORD_HASH ==
    "d3981f82aea12b4b0863a8e4c22ddf7fc8102c5582ed114352b9f9c9d429974f"

\* the password whose SHA-256 is EXPECTED_PASSWORD_HASH
S_password == "the password"

\* createHash('sha256').update(password).digest('hex')
hashPassword(password) ==
    IF password = S_password THEN EXPECTED_PASSWORD_HASH
    ELSE "sha256(" \o password \o ")"

\* the symbols of a string written one after the other
RECURSIVE Flat(_)
Flat(s) ==
    IF s = <<>> THEN "" ELSE s[1] \o Flat(Tail(s))

\* the hex digits of the HMAC-SHA256 of data under a secret
HMAC(secret, data) ==
    "hmac(" \o secret \o "," \o Flat(data) \o ")"

\* 60 * 60 * 24 * 7 * 1000: 7 days in milliseconds
maxAge == 60 * 60 * 24 * 7 * 1000

\* `${data}:${signature}`
Signed(secret, data) ==
    data \o <<":">> \o <<HMAC(secret, data)>>

\* generateSessionToken at a time, with the bytes randomBytes gave
generateSessionToken(randomData, timestamp) ==
    Signed(TOKEN_SECRET, <<randomData>> \o <<":">> \o NumToString(timestamp, 10))

NotANumber ==
    [nan |-> TRUE, value |-> 0]

\* the length of the longest prefix of s made of digits
DigitRun(s) ==
    Min({ j \in 1..Len(s) : s[j] \notin DigitSet } \cup {Len(s) + 1}) - 1

\* the value of the first n characters of s, digits all of them
DigitsOf(s, n) ==
    IF n = 0 THEN NotANumber ELSE [nan |-> FALSE, value |-> NumIn(SubSeq(s, 1, n), 10)]

Negated(number) ==
    [number EXCEPT !.value = 0 - @]

\* the digits after white space and a sign
Unsigned(s) ==
    DigitsOf(s, DigitRun(s))

AfterSpace(s) ==
    IF s # <<>> /\ s[1] = "-" THEN Negated(Unsigned(Tail(s)))
    ELSE IF s # <<>> /\ s[1] = "+" THEN Unsigned(Tail(s))
    ELSE Unsigned(s)

\* parseInt(s, 10)
parseInt(s) ==
    AfterSpace(TrimStart(s))

\* the test with <= in the place of <
NotExpired_inclusive(number, time) ==
    ~number.nan /\ time - number.value <= maxAge

\* Date.now() - parseInt(timestamp, 10) < maxAge; a comparison with NaN is false
NotExpired(number, time) ==
    ~number.nan /\ time - number.value < maxAge

\* verifyToken after the split
VerifyParts(parts, time) ==
    IF Len(parts) # 3 THEN FALSE
    ELSE IF parts[3] # <<HMAC(TOKEN_SECRET, parts[1] \o <<":">> \o parts[2])>> THEN FALSE
    ELSE NotExpired(parseInt(parts[2]), time)

\* verifyToken(token) at a time
verifyToken(token, time) ==
    VerifyParts(Split(token, ":"), time)

S_login == <<"/", "l", "o", "g", "i", "n">>

S_apiAuth == <<"/", "a", "p", "i", "/", "a", "u", "t", "h">>

S_nextStatic == <<"_", "n", "e", "x", "t", "/", "s", "t", "a", "t", "i", "c">>

S_nextImage == <<"_", "n", "e", "x", "t", "/", "i", "m", "a", "g", "e">>

S_favicon == <<"f", "a", "v", "i", "c", "o", "n">>

S_ico == <<"i", "c", "o">>

\* favicon.ico as a regular expression: the dot is any character
FaviconIco(rest) ==
    /\ Len(rest) >= Len(S_favicon) + 1 + Len(S_ico)
    /\ StartsWith(rest, S_favicon)
    /\ StartsWith(From(rest, Len(S_favicon) + 2), S_ico)

\* config.matcher, '/((?!_next/static|_next/image|favicon.ico).*)': the paths
\* the middleware is run for
Matcher(pathname) ==
    /\ pathname # <<>>
    /\ pathname[1] = "/"
    /\ ~StartsWith(Tail(pathname), S_nextStatic)
    /\ ~StartsWith(Tail(pathname), S_nextImage)
    /\ ~FaviconIco(Tail(pathname))

\* NextResponse.next()
PassOn ==
    [kind |-> "next", to |-> <<>>, from |-> <<>>]

\* NextResponse.redirect(loginUrl), the URL of /login with the search
\* parameter `from`
RedirectToLogin(request) ==
    [kind |-> "redirect", to |-> S_login, from |-> request.pathname \o request.search]

\* the request is served without the middleware
NotMatched ==
    [kind |-> "unmatched", to |-> <<>>, from |-> <<>>]

\* middleware(request) at a time
middleware(request, time) ==
    IF request.pathname = S_login \/ StartsWith(request.pathname, S_apiAuth)
    THEN PassOn
    ELSE IF ~request.cookie \/ ~verifyToken(request.value, time)
    THEN RedirectToLogin(request)
    ELSE PassOn

\* the instants of the model: the start, a millisecond later, 7 days after
\* the start, and a millisecond later
Times ==
    {0, 1, maxAge, maxAge + 1}

\* what randomBytes(32).toString('hex') gives
RandomData ==
    {"r1", "r2"}

\* the paths of the requests
GatePaths ==
    { <<"/">>,
      S_login,
      S_login \o <<"/", "x">>,
      S_apiAuth \o <<"/", "l", "o", "g", "i", "n">>,
      S_apiAuth \o <<"x">>,
      <<"/", "r", "e", "a", "d", "e", "r">>,
      <<"/", "a", "p", "i", "/", "f", "e", "t", "c", "h">>,
      <<"/">> \o S_favicon \o <<".">> \o S_ico,
      <<"/">> \o S_nextStatic \o <<"/", "a", ".", "j", "s">> }

\* request.nextUrl of the requests: each path without a query, and the
\* reader with one
GateURLs ==
    { [pathname |-> pathname, search |-> <<>>] : pathname \in GatePaths }
    \cup { [pathname |-> <<"/", "r", "e", "a", "d", "e", "r">>,
            search   |-> <<"?", "i", "d", "=", "1">>] }

\* tokens nobody issued: empty, of two parts, of four, with a signature that
\* is none, signed under another secret, a time stamp put forward under the
\* signature of another one, and signed under the secret with no time stamp
\* and with one in the future
ForgedTokens ==
    { <<>>,
      <<"r1", ":", "0">>,
      generateSessionToken("r1", 0) \o <<":", "x">>,
      <<"r1", ":", "0", ":", "bad">>,
      Signed("another secret", <<"r1", ":", "0">>),
      <<"r1", ":", "1", ":", HMAC(TOKEN_SECRET, <<"r1", ":", "0">>)>>,
      Signed(TOKEN_SECRET, <<"r1", ":">>),
      Signed(TOKEN_SECRET, <<"r1", ":">> \o NumToString(maxAge + 1, 10)) }

\* the cookie a request carries: none, a forged one, the one of the session
Cookies(s) ==
    {[cookie |-> FALSE, value |-> <<>>]}
    \cup { [cookie |-> TRUE, value |-> t] : t \in ForgedTokens }
    \cup (IF s.cookie THEN {[cookie |-> TRUE, value |-> s.value]} ELSE {})

GateRequest(nextUrl, c) ==
    [pathname |-> nextUrl.pathname, search |-> nextUrl.search,
     cookie |-> c.cookie, value |-> c.value]

\* the bodies of the login requests: no JSON, no password, another user,
\* another password, the user and the password
LoginBodies ==
    { [json |-> FALSE, username |-> "", password |-> ""],
      [json |-> TRUE, username |-> EXPECTED_USERNAME, password |-> ""],
      [json |-> TRUE, username |-> "eve", password |-> S_password],
      [json |-> TRUE, username |-> EXPECTED_USERNAME, password |-> "guess"],
      [json |-> TRUE, username |-> EXPECTED_USERNAME, password |-> S_password] }

LoginAnswer(status) ==
    [status |-> status, cookie |-> FALSE, value |-> <<>>]

\* response.cookies.set('auth-token', sessionToken, ...)
LoggedIn(sessionToken) ==
    [status |-> 200, cookie |-> TRUE, value |-> sessionToken]

\* POST /api/auth/login
LoginPOST(body, randomData) ==
    /\ session' =
           IF ~body.json THEN LoginAnswer(500)
           ELSE IF body.username = "" \/ body.password = "" THEN LoginAnswer(400)
           ELSE IF \/ body.username # EXPECTED_USERNAME
                   \/ hashPassword(body.password) # EXPECTED_PASSWORD_HASH
           THEN LoginAnswer(401)
           ELSE LoggedIn(generateSessionToken(randomData, clock))
    /\ UNCHANGED <<clock, gate>>

\* a request comes in: the middleware is run when the matcher says so
Request(request) ==
    /\ gate' = [request  |-> request,
                at       |-> clock,
                response |-> IF Matcher(request.pathname) THEN middleware(request, clock)
                             ELSE NotMatched]
    /\ UNCHANGED <<clock, session>>

\* time goes by
Tick(time) ==
    /\ time > clock
    /\ clock' = time
    /\ UNCHANGED <<session, gate>>

InitGate ==
    /\ GateIdle
    /\ route = "fetch"
    /\ ServerIdle
    /\ ValidatorIdle
    /\ ReaderIdle
    /\ HtmlIdle

NextGate ==
    \/ \E body \in LoginBodies, randomData \in RandomData :
           LoginPOST(body, randomData) /\ UNCHANGED <<validateVars, serverVars, readerVars, htmlVars>>
    \/ \E nextUrl \in GateURLs, c \in Cookies(session) :
           Request(GateRequest(nextUrl, c))
           /\ UNCHANGED <<validateVars, serverVars, readerVars, htmlVars>>
    \/ \E time \in Times :
           Tick(time) /\ UNCHANGED <<validateVars, serverVars, readerVars, htmlVars>>

SpecGate ==
    InitGate /\ [][NextGate]_vars



(***************************************************************************)
(* Claims about the validator                                              *)
(***************************************************************************)
\* the blocks the specification names: loopback, the RFC 1918 blocks, link-local
InNamedBlock(a, b) ==
    \/ a = 127
    \/ a = 10
    \/ a = 172 /\ b >= 16 /\ b <= 31
    \/ a = 192 /\ b = 168
    \/ a = 169 /\ b = 254

IsAddress(addr) ==
    /\ addr # NoAddr
    /\ \A i \in 1..4 : addr[i] \in 0..255

RejectedAs(err) ==
    ~vOut.valid /\ vOut.error = err

\* C1: an http(s) URL whose host is the IPv4 address a.b.c.d is rejected as
\* private exactly when a.b lies in 127/8, 10/8, 172.16/12, 192.168/16 or
\* 169.254/16.
C1_PrivateBlocks ==
    (vOut.done /\ vIn.scheme = "http" /\ IsAddress(vIn.addr)) =>
        (RejectedAs(ErrPrivate) <=> InNamedBlock(vIn.addr[1], vIn.addr[2]))

C1_Witness ==
    /\ vOut.done
    /\ vIn.scheme = "http"
    /\ IsAddress(vIn.addr)
    /\ vIn.addr[1] = 172 /\ vIn.addr[2] = 31
    /\ RejectedAs(ErrPrivate)

\* C2: every http(s) URL whose host is localhost or the IPv6 loopback literal
\* is rejected, the host name tested being the one the URL parser yields.
C2_LoopbackRejected ==
    (vOut.done /\ vIn.scheme = "http" /\ vIn.kind \in {"localhost", "loopback6"}) =>
        ~vOut.valid

\* the half of C2 the code does keep: localhost, however it is spelled
C2_LocalhostRejected ==
    (vOut.done /\ vIn.scheme = "http" /\ vIn.kind = "localhost") =>
        ~vOut.valid

\* C3: an input that does not parse as an absolute URL is rejected for its
\* format, and a parsed URL whose scheme is neither http nor https is rejected
\* for its scheme, whatever its host.
C3_FormatAndScheme ==
    vOut.done =>
        LET parsed == ParseURL(vIn.url)
        IN  /\ ~parsed.ok => RejectedAs(ErrFormat)
            /\ (parsed.ok /\ parsed.protocol \notin {S_http \o <<":">>, S_https \o <<":">>})
                   => RejectedAs(ErrProtocol)
            /\ vIn.scheme = "none" => ~vOut.valid
            /\ (vIn.scheme = "other" /\ parsed.ok) => RejectedAs(ErrProtocol)

C3_Witness ==
    /\ vOut.done
    /\ vIn.scheme = "other"
    /\ IsAddress(vIn.addr) /\ vIn.addr[1] = 10
    /\ RejectedAs(ErrProtocol)

C3_WitnessFormat ==
    /\ vOut.done
    /\ vIn.scheme = "http"
    /\ ~vIn.suffix
    /\ RejectedAs(ErrFormat)

(***************************************************************************)
(* Claims about the fetch route                                            *)
(***************************************************************************)
\* the url of a request body is missing, or validateURL rejects it
Rejected(body) ==
    \/ body.kind = "nourl"
    \/ body.kind = "url" /\ ~validateURL(body.url).valid

\* the handler of request r leaves the suspension point at
LeavesAt(r, pc) ==
    req[r].pc = pc /\ req'[r].pc # pc

\* the handler of request r ends in this step
Answered(r) ==
    req[r].pc # "done" /\ req'[r].pc = "done"

\* C4: an ingestion request whose url is missing or rejected by the validator
\* (http://127.0.0.1/demo among them) is answered 400 with an error, makes no
\* outbound call and leaves the store unchanged.
C4_RejectedIs400 ==
    [][\A r \in Reqs :
          (LeavesAt(r, "json") /\ Rejected(req[r].body)) =>
              /\ Answered(r)
              /\ resp'[r].status = 400 /\ resp'[r].error # ""
              /\ calls'[r] = 0
              /\ storage' = storage]_vars

\* C4 in the module of src/unnamed/part_000 alone
C4_RejectedIs400_fetch ==
    [][\A r \in Reqs :
          (route = "fetch" /\ LeavesAt(r, "json") /\ Rejected(req[r].body)) =>
              /\ Answered(r)
              /\ resp'[r].status = 400 /\ resp'[r].error # ""
              /\ calls'[r] = 0
              /\ storage' = storage]_vars

\* the demo rule as the specification words it
DemoRule(url) ==
    LET hostname == ParseURL(url).hostname
    IN  \/ Includes(ToLowerCase(url), S_demo)
        \/ hostname = S_example
        \/ EndsWith(hostname, <<".">> \o S_example)

\* request r is answered 200 {id, title} and the store holds the record
StoredAs(r, title, content) ==
    /\ Answered(r)
    /\ resp'[r].status = 200 /\ resp'[r].hasId /\ resp'[r].title = title
    /\ resp'[r].id \in DOMAIN storage'
    /\ storage'[resp'[r].id].title = title
    /\ storage'[resp'[r].id].content = content
    /\ storage'[resp'[r].id].url = req[r].body.url

\* C5: a URL that passes validation and holds "demo" in any case, or whose
\* host name is example.com or ends in .example.com, is ingested without an
\* outbound call: the fixture title and content are stored unannotated and the
\* answer is 200 {id, title}.
C5_DemoShortCircuit ==
    [][\A r \in Reqs :
          (/\ LeavesAt(r, "json")
           /\ req[r].body.kind = "url"
           /\ validateURL(req[r].body.url).valid
           /\ DemoRule(req[r].body.url)) =>
              /\ calls'[r] = 0
              /\ StoredAs(r, getDemoContent(route).title, getDemoContent(route).content)]_vars

\* C5 in the module of src/unnamed/part_000 alone
C5_DemoShortCircuit_fetch ==
    [][\A r \in Reqs :
          (/\ route = "fetch"
           /\ LeavesAt(r, "json")
           /\ req[r].body.kind = "url"
           /\ validateURL(req[r].body.url).valid
           /\ DemoRule(req[r].body.url)) =>
              /\ calls'[r] = 0
              /\ StoredAs(r, getDemoContent(route).title, getDemoContent(route).content)]_vars

\* C6: when the upstream fetch completes with a status outside 200..299, the
\* response carries that status and an error, no record is added to the store
\* and no id is returned.
C6_StatusMirrored ==
    [][\A r \in Reqs :
          (/\ LeavesAt(r, "fetch")
           /\ upstream'[r].kind = "answered"
           /\ (upstream'[r].status < 200 \/ upstream'[r].status > 299)) =>
              /\ Answered(r)
              /\ resp'[r].status = upstream'[r].status /\ resp'[r].error # ""
              /\ ~resp'[r].hasId
              /\ storage' = storage]_vars

\* C6 for the statuses a response with a body can carry
C6_StatusMirrored_body ==
    [][\A r \in Reqs :
          (/\ LeavesAt(r, "fetch")
           /\ upstream'[r].kind = "answered"
           /\ (upstream'[r].status < 200 \/ upstream'[r].status > 299)
           /\ ~JsonThrows(upstream'[r].status)) =>
              /\ Answered(r)
              /\ resp'[r].status = upstream'[r].status /\ resp'[r].error # ""
              /\ ~resp'[r].hasId
              /\ storage' = storage]_vars

\* C7: when the outbound fetch fails at transport level the request has made
\* exactly one outbound call, the fixture content is stored under a fresh id
\* with the fixture title extended by the fetch-failed marker, and the answer
\* is 200 {id, title}.
C7_TransportFallback ==
    [][\A r \in Reqs :
          (LeavesAt(r, "fetch") /\ upstream'[r].kind = "failed") =>
              /\ calls'[r] = 1
              /\ resp'[r].id \notin DOMAIN storage
              /\ StoredAs(r, getDemoContent(route).title \o S_fetchFailed,
                          getDemoContent(route).content)]_vars

\* C7 without the freshness of the id
C7_TransportFallback_anyId ==
    [][\A r \in Reqs :
          (LeavesAt(r, "fetch") /\ upstream'[r].kind = "failed") =>
              /\ calls'[r] = 1
              /\ StoredAs(r, getDemoContent(route).title \o S_fetchFailed,
                          getDemoContent(route).content)]_vars

\* C8: a read request is answered 400 when the id parameter is missing (absent
\* or empty), 404 when the id is not a key of the store, 200 with the stored
\* record when it is a key, and leaves the store unchanged.
C8_ReadAnswers ==
    [][got' # got =>
          LET q == got'.query
              missing == ~q.present \/ q.id = <<>>
          IN  /\ missing => got'.status = 400 /\ got'.error # ""
              /\ (~missing /\ q.id \notin DOMAIN storage) =>
                     got'.status = 404 /\ got'.error # ""
              /\ (q.present /\ q.id \in DOMAIN storage) =>
                     got'.status = 200 /\ got'.data = storage[q.id]
              /\ storage' = storage]_vars

\* C8 for the keys that are not empty
C8_ReadAnswers_nonEmpty ==
    [][got' # got =>
          LET q == got'.query
              missing == ~q.present \/ q.id = <<>>
          IN  /\ missing => got'.status = 400 /\ got'.error # ""
              /\ (~missing /\ q.id \notin DOMAIN storage) =>
                     got'.status = 404 /\ got'.error # ""
              /\ (~missing /\ q.id \in DOMAIN storage) =>
                     got'.status = 200 /\ got'.data = storage[q.id]
              /\ storage' = storage]_vars

\* C9: for every ingestion answered 200 {id, title}, the read of that id that
\* follows is answered 200 with the same title and the content that ingestion
\* stored.
C9_RoundTrip ==
    [][\A r \in Reqs :
          (Answered(r) /\ resp'[r].status = 200) =>
              LET read == GETResponse(storage', [present |-> TRUE, id |-> resp'[r].id])
              IN  /\ read.status = 200
                  /\ read.data.title = resp'[r].title
                  /\ read.data.url = req[r].body.url]_vars

\* C9 for the ids that are not empty
C9_RoundTrip_nonEmpty ==
    [][\A r \in Reqs :
          (Answered(r) /\ resp'[r].status = 200 /\ resp'[r].id # <<>>) =>
              LET read == GETResponse(storage', [present |-> TRUE, id |-> resp'[r].id])
              IN  /\ read.status = 200
                  /\ read.data.title = resp'[r].title
                  /\ read.data.url = req[r].body.url]_vars

\* request r is answered 200 in this step
Ingested(r) ==
    Answered(r) /\ resp'[r].status = 200

\* C12: every id an ingestion returns is fresh, not a key of the store when
\* it is written, and a record once stored is never overwritten, changed or
\* removed: a read of its id returns the same record ever after.
C12_FreshIds ==
    [][/\ \A r \in Reqs : Ingested(r) => resp'[r].id \notin DOMAIN storage
       /\ \A id \in DOMAIN storage :
              /\ id \in DOMAIN storage'
              /\ storage'[id] = storage[id]
              /\ GETResponse(storage', [present |-> TRUE, id |-> id])
                     = GETResponse(storage, [present |-> TRUE, id |-> id])]_vars

\* the part of C12 the code keeps: no key is ever removed, and a step changes
\* no record but the one under the id it returns
C12_FreshIds_others ==
    [][\A id \in DOMAIN storage :
           /\ id \in DOMAIN storage'
           /\ storage'[id] # storage[id] =>
                  \E r \in Reqs : Ingested(r) /\ resp'[r].id = id]_vars

\* C13: an unexpected internal failure while handling an ingestion (the
\* parse of the request body or the extractor throwing) is answered with a
\* 500-class response carrying the generic message, and stores nothing.
C13_InternalErrorIs500 ==
    [][\A r \in Reqs :
          (\/ LeavesAt(r, "json") /\ req[r].body.kind = "malformed"
           \/ LeavesAt(r, "text") /\ upstream'[r].kind = "unparsed") =>
              /\ Answered(r)
              /\ resp'[r].status >= 500 /\ resp'[r].status <= 599
              /\ resp'[r].error = ErrInternal
              /\ ~resp'[r].hasId
              /\ storage' = storage]_vars

\* C13 for the failure of the parse of the request body
C13_InternalErrorIs500_body ==
    [][\A r \in Reqs :
          (LeavesAt(r, "json") /\ req[r].body.kind = "malformed") =>
              /\ Answered(r)
              /\ resp'[r].status >= 500 /\ resp'[r].status <= 599
              /\ resp'[r].error = ErrInternal
              /\ ~resp'[r].hasId
              /\ storage' = storage]_vars

\* C14: every ingestion request eventually produces a response; an upstream
\* that never answers cannot hold an ingestion open forever.
C14_EveryIngestionAnswers ==
    (req[1].pc = "json") ~> (req[1].pc = "done")

\* what the code does keep of C14: a handler that is not waiting for the
\* upstream always has a step to take, so only the upstream can hold it
C14_EveryIngestionAnswers_local ==
    (req[1].pc = "json") ~> (req[1].pc \in {"fetch", "done"})

\* the title and content an ingestion has of its own, by what its upstream
\* did: the fixture when no fetch was made, the extract of the document it
\* read, the fixture marked as a failed fetch otherwise
OwnArticle(u) ==
    IF u.kind = "none" THEN getDemoContent(route)
    ELSE IF u.kind = "read" THEN extractMainContent(u.html)
    ELSE [getDemoContent(route) EXCEPT !.title = @ \o S_fetchFailed]

\* the record of request r is in the store as that request made it
OwnRecord(r, own) ==
    /\ resp'[r].hasId /\ resp'[r].id \in DOMAIN storage'
    /\ resp'[r].title = own.title
    /\ storage'[resp'[r].id].url = req[r].body.url
    /\ storage'[resp'[r].id].title = own.title
    /\ storage'[resp'[r].id].content = own.content

\* the records of the ingestions completed before are present and unmodified
OthersKept(r) ==
    \A q \in Reqs \ {r} :
        (req[q].pc = "done" /\ resp[q].status = 200) =>
            /\ resp[q].id \in DOMAIN storage'
            /\ storage'[resp[q].id] = storage[resp[q].id]

\* C15: with ingestions and reads interleaved at their suspension points, each
\* ingestion that answers 200 leaves in the store a record whose url, title
\* and content all come from that same request, and the records of the other
\* completed ingestions are all still present and unmodified.
C15_InterleavedIngestions ==
    [][\A r \in Reqs :
          Ingested(r) => OwnRecord(r, OwnArticle(upstream'[r])) /\ OthersKept(r)]_vars

\* C15 for the ingestions whose id is not yet a key of the store
C15_InterleavedIngestions_freshId ==
    [][\A r \in Reqs :
          (Ingested(r) /\ resp'[r].id \notin DOMAIN storage) =>
              OwnRecord(r, OwnArticle(upstream'[r])) /\ OthersKept(r)]_vars

(***************************************************************************)
(* Claims about the reader views                                           *)
(***************************************************************************)
\* C10: whenever a reader view shows an article, the HTML handed to the
\* renderer is the sanitizer's output for the chapter-segmented HTML of the
\* loaded content.
C10_RendererGetsSanitized ==
    rendered.screen = "article" =>
        rendered.html = sanitizedContent(processedContent(reader.content.content))

\* C10 in the view of src/app/reader/page.tsx alone
C10_RendererGetsSanitized_page ==
    (view = "page" /\ rendered.screen = "article") =>
        rendered.html = sanitizedContent(processedContent(reader.content.content))

(***************************************************************************)
(* Claims about the functions on HTML                                      *)
(***************************************************************************)
\* the attribute names of the model that are event handlers (on*)
OnAttrs ==
    {"onclick", "onerror"}

\* the attribute names of the model that are data-* attributes
DataAttrs ==
    {"data-k"}

Sanitized ==
    hOut.called = "sanitizedContent"

TagsOf(h) ==
    { Info(h[i]) : i \in { k \in 1..Len(h) : IsTag(h[k]) } }

\* C11: for every input HTML the output of the sanitizer holds only tags of
\* ALLOWED_TAGS and only attributes of ALLOWED_ATTR.
C11_SanitizerAllowLists ==
    Sanitized =>
        \A info \in TagsOf(hOut.html) :
            /\ info.name \in ALLOWED_TAGS
            /\ info.attrs \subseteq ALLOWED_ATTR

\* the part of C11 the code keeps: only tags of ALLOWED_TAGS, no script tag,
\* no on*, style or data-* attribute; the attributes are those of
\* ALLOWED_ATTR and the aria-* ones
C11_SanitizerAllowLists_aria ==
    Sanitized =>
        \A info \in TagsOf(hOut.html) :
            /\ info.name \in ALLOWED_TAGS
            /\ info.name # "script"
            /\ info.attrs \cap (OnAttrs \cup DataAttrs \cup {"style"}) = {}
            /\ info.attrs \subseteq ALLOWED_ATTR \cup ARIA_ATTR

ExtractorReturned ==
    hOut.called = "extractMainContent"

\* the text of the first element of that name in the document, <<>> without one
FirstText(doc, name) ==
    TextOf(FirstHTML(doc, Select(doc, Selector({name}, {}, {}, {}))))

\* the title resolution order: the title's text, else the first h1's, else
\* the literal
TitleRule(doc) ==
    OrElse(FirstText(doc, "title"), OrElse(FirstText(doc, "h1"), S_Untitled))

\* C16: for every input document the title extract returns is the text of
\* the document's <title> if it is not empty, else the text of the document's
\* first <h1> if it is not empty, else "Untitled", also when the <h1> sits
\* inside an element that noise removal strips, such as <header>.
C16_TitleOrder ==
    ExtractorReturned => hOut.title = TitleRule(hIn.html)

\* the part of C16 the code keeps: the resolution order, on what noise
\* removal leaves of the document
C16_TitleOrder_afterRemoval ==
    ExtractorReturned => hOut.title = TitleRule(Remove(hIn.html, NoiseBefore))

\* the elements a selector matches whose own trimmed text is longer than the
\* threshold
Qualifying(doc, sel) ==
    { i \in Select(doc, sel) : Len(Trim(TextOf(InnerHTML(doc, i)))) > MinTextLength }

\* the selectors, by their place in the priority order, that match such an
\* element
QualifyingSelectors(doc) ==
    { k \in 1..Len(articleSelectors) : Qualifying(doc, articleSelectors[k]) # {} }

\* the inner HTML of the first candidate that qualifies, the body's without one
ChosenOf(doc, ks) ==
    IF ks = {} THEN FirstHTML(doc, Select(doc, Selector({"body"}, {}, {}, {})))
    ELSE InnerHTML(doc, Min(Qualifying(doc, articleSelectors[Min(ks)])))

ContainerRule(doc) ==
    ChosenOf(doc, QualifyingSelectors(doc))

\* a selector of the priority list matches several elements of the document
SeveralMatch(doc) ==
    \E k \in 1..Len(articleSelectors) : Cardinality(Select(doc, articleSelectors[k])) > 1

\* C17: extract walks the container selectors in their priority order and
\* returns the inner HTML of the first candidate whose own trimmed text is
\* longer than 100 characters, the element returned being the element
\* measured also when a selector matches several elements; the body's inner
\* HTML is used only if no candidate qualifies.
C17_ContainerSearch ==
    ExtractorReturned =>
        hOut.html = Remove(LoadFragment(ContainerRule(Remove(hIn.html, NoiseBefore))),
                           NoiseAfter)

\* C17 for the documents in which no selector matches several elements
C17_ContainerSearch_single ==
    (ExtractorReturned /\ ~SeveralMatch(Remove(hIn.html, NoiseBefore))) =>
        hOut.html = Remove(LoadFragment(ContainerRule(Remove(hIn.html, NoiseBefore))),
                           NoiseAfter)

\* the classes of the noise elements
NoiseClasses ==
    {"ad", "advertisement", "social-share"}

IsNoise(info) ==
    info.name \in NoiseNames \/ info.classes \cap NoiseClasses # {}

\* C18: for every input document the content extract returns holds no noise
\* element: no script, style, nav, header, footer, aside or iframe and no
\* element of class ad, advertisement or social-share, whether it came from a
\* selected container or from the body.
C18_NoNoiseInContent ==
    ExtractorReturned => \A info \in TagsOf(hOut.html) : ~IsNoise(info)

\* extract has returned the content of a selected container that held noise
\* elements, a social-share element among them
C18_Witness ==
    /\ ExtractorReturned
    /\ \E i \in 1..Len(hIn.html) : Info(hIn.html[i]).classes = {"social-share"}
    /\ QualifyingSelectors(Remove(hIn.html, NoiseBefore)) # {}
    /\ Len(hOut.html) > MinTextLength

\* extract has returned the body of a document that held noise elements
C18_WitnessBody ==
    /\ ExtractorReturned
    /\ \E i \in 1..Len(hIn.html) : IsNoise(Info(hIn.html[i]))
    /\ QualifyingSelectors(Remove(hIn.html, NoiseBefore)) = {}

SegmentationReturned ==
    hOut.called = "processedContent"

\* the k-th smallest of a set of numbers
Nth(S, k) ==
    CHOOSE i \in S : Cardinality({ j \in S : j < i }) = k - 1

\* where the pre blocks of an article start, none of them inside another
PreStarts(h) ==
    { i \in 1..Len(h) : h[i] = "<pre>" }

\* the text of the pre block that starts at h[i]
PreText(h, i) ==
    SubSeq(h, i + 1, Min({ j \in i..Len(h) : h[j] = "</pre>" }) - 1)

\* the k-th pre block of an article
PreTextOf(h, k) ==
    PreText(h, Nth(PreStarts(h), k))

\* the text before the first line feed
LineOf(t) ==
    SubSeq(t, 1, Min({ j \in 1..Len(t) : t[j] = "\n" } \cup {Len(t) + 1}) - 1)

\* a line cut to the length of a title, without the white space the cut ends in
CutLine(line) ==
    TrimEnd(SubSeq(line, 1, Min({MAX_CHAPTER_TITLE_LENGTH, Len(line)})))

\* the title of the n-th chapter, made of a pre block with that first line
PreTitleOf(line, n) ==
    IF line = <<>> THEN S_Chapter \o <<" ">> \o NumToString(n, 10) ELSE CutLine(line)

PreTitleRule(text, n) ==
    PreTitleOf(LineOf(Trim(text)), n)

\* where the chapter container n starts in the processed HTML
ContainersOf(out, n) ==
    { i \in 1..Len(out) : out[i] = ChapterTag(n) }

\* the container at out[i] starts with the heading that holds the title
HeadedBy(out, i, title) ==
    /\ Len(out) >= i + Len(title) + 2
    /\ SubSeq(out, i + 1, i + Len(title) + 2) = <<"<h2>">> \o title \o <<"</h2>">>

\* C19: in the pass over the pre blocks every pre block becomes one chapter
\* container, the k-th block the container chapter-k; its title is the first
\* line of the trimmed text of the block cut to at most 50 characters, with
\* nothing added, or "Chapter k" when the trimmed text has no first line; no
\* such title is longer than 50 characters.
C19_PreTitles ==
    SegmentationReturned =>
        /\ Len(hOut.chapters) >= Cardinality(PreStarts(hIn.html))
        /\ \A i \in 1..Len(hOut.html) : hOut.html[i] \notin {"<pre>", "</pre>"}
        /\ \A k \in 1..Cardinality(PreStarts(hIn.html)) :
               /\ hOut.chapters[k].id = ChapterId(k)
               /\ hOut.chapters[k].title = PreTitleRule(PreTextOf(hIn.html, k), k)
               /\ Len(hOut.chapters[k].title) <= MAX_CHAPTER_TITLE_LENGTH
               /\ Cardinality(ContainersOf(hOut.html, k)) = 1
               /\ \A i \in ContainersOf(hOut.html, k) :
                      HeadedBy(hOut.html, i, hOut.chapters[k].title)

\* an article of two pre blocks: the first line of the first is longer than a
\* title may be, the second has no text
C19_Witness ==
    /\ SegmentationReturned
    /\ Cardinality(PreStarts(hIn.html)) = 2
    /\ Len(LineOf(Trim(PreTextOf(hIn.html, 1)))) > MAX_CHAPTER_TITLE_LENGTH
    /\ Len(hOut.chapters[1].title) = MAX_CHAPTER_TITLE_LENGTH
    /\ Trim(PreTextOf(hIn.html, 2)) = <<>>
    /\ hOut.chapters[2].title = DefaultTitle(2)

\* a pre block whose first 50 characters end in a space: the title is shorter
\* than the cut
C19_WitnessSpace ==
    /\ SegmentationReturned
    /\ Cardinality(PreStarts(hIn.html)) = 1
    /\ Len(LineOf(Trim(PreTextOf(hIn.html, 1)))) > MAX_CHAPTER_TITLE_LENGTH
    /\ Len(hOut.chapters[1].title) = MAX_CHAPTER_TITLE_LENGTH - 1

\* the symbols of s at the indexes idx
KeepAt(s, idx) ==
    [ k \in 1..Len(idx) |-> s[idx[k]] ]

\* the symbols of s at the indexes of S, in their order
Keep(s, S) ==
    LET In(i) == i \in S
    IN  KeepAt(s, SelectSeq([ i \in 1..Len(s) |-> i ], In))

\* a text with every \r\n made \n
Unix(t) ==
    Keep(t, { i \in 1..Len(t) : ~(t[i] = "\r" /\ i < Len(t) /\ t[i + 1] = "\n") })

\* two line feeds of u with nothing but white space between them
Linked(u, i, j) ==
    /\ i < j
    /\ u[i] = "\n"
    /\ u[j] = "\n"
    /\ \A k \in (i + 1)..(j - 1) : u[k] \in WhiteSpace

\* where the maximal runs of two or more line feeds of u start
RunStarts(u) ==
    { i \in 1..Len(u) : /\ \E j \in (i + 1)..Len(u) : Linked(u, i, j)
                        /\ ~\E h \in 1..(i - 1) : Linked(u, h, i) }

\* the last line feed of the run that starts at u[i]
RunEnd(u, i) ==
    MaxOrZero({ j \in (i + 1)..Len(u) : Linked(u, i, j) })

\* the k-th of the pieces the runs that start at `starts` cut u into
Piece(u, starts, k) ==
    SubSeq(u,
           IF k = 1 THEN 1 ELSE RunEnd(u, Nth(starts, k - 1)) + 1,
           IF k = Cardinality(starts) + 1 THEN Len(u) ELSE Nth(starts, k) - 1)

\* a text with a space for every line feed
Spaced(t) ==
    [ i \in 1..Len(t) |-> IF t[i] = "\n" THEN " " ELSE t[i] ]

\* a text without the spaces that follow a space
Single(c) ==
    Keep(c, { i \in 1..Len(c) : ~(c[i] = " " /\ i > 1 /\ c[i - 1] = " ") })

\* the paragraphs of a text whose runs of line feeds start at `starts`
ParagraphsAt(u, starts) ==
    [ k \in 1..(Cardinality(starts) + 1) |-> Single(Spaced(Piece(u, starts, k))) ]

\* the paragraphs the text of a pre block is to become
ReflowRule(text) ==
    ParagraphsAt(Unix(text), RunStarts(Unix(text)))

\* the paragraphs of a piece of HTML: what stands between each <p> and the
\* next </p>
ParagraphText(inner, i) ==
    SubSeq(inner, i + 1, Min({ j \in i..Len(inner) : inner[j] = "</p>" }) - 1)

ParagraphsIn(inner, starts) ==
    [ k \in 1..Cardinality(starts) |-> ParagraphText(inner, Nth(starts, k)) ]

ParagraphsOf(inner) ==
    ParagraphsIn(inner, { i \in 1..Len(inner) : inner[i] = "<p>" })

\* every chapter container of the processed HTML
AllContainers(out) ==
    { i \in 1..Len(out) : \E n \in 1..MaxChapters : out[i] = ChapterTag(n) }

\* the chapter containers made of a pre block: a heading follows the tag
HeadedContainers(out) ==
    { i \in AllContainers(out) : i < Len(out) /\ out[i + 1] = "<h2>" }

\* the processed HTML from the container at out[i] up to the next of the
\* containers that start at `starts`
SpanOf(out, i, starts) ==
    SubSeq(out, i, Min({ j \in starts : j > i } \cup {Len(out) + 1}) - 1)

\* the paragraphs of the chapter container k of the processed HTML, a
\* container made of a pre block
ReflowOf(out, k) ==
    ParagraphsOf(InnerHTML(SpanOf(out, Min(ContainersOf(out, k)), HeadedContainers(out)), 1))

\* "Line1\nLine2\n\nLine3", a character for a word
S_Lines == <<"a", "\n", "b", "\n", "\n", "c">>

\* the paragraphs made of a pre block with that text are those of the rule
Reflowed(paragraphs, text) ==
    /\ paragraphs = ReflowRule(text)
    /\ Len(paragraphs) = Cardinality(RunStarts(Unix(text))) + 1
    /\ text = S_Lines => paragraphs = << <<"a", " ", "b">>, <<"c">> >>

\* C20: the text of a pre block is reflowed: \r\n counts as \n, every maximal
\* run of two or more line feeds with nothing but white space between them is
\* one paragraph boundary, every other line feed is one space, every run of
\* spaces is one space; there is one paragraph more than there are such runs,
\* and "Line1\nLine2\n\nLine3" gives the paragraphs "Line1 Line2", "Line3".
C20_Reflow ==
    SegmentationReturned =>
        \A k \in 1..Cardinality(PreStarts(hIn.html)) :
            /\ ContainersOf(hOut.html, k) # {}
            /\ Reflowed(ReflowOf(hOut.html, k), PreTextOf(hIn.html, k))

\* an article of two pre blocks: the example, and a text with \r\n whose two
\* paragraphs start with a space made of a line feed
C20_Witness ==
    /\ SegmentationReturned
    /\ Cardinality(PreStarts(hIn.html)) = 2
    /\ PreTextOf(hIn.html, 1) = S_Lines
    /\ ReflowOf(hOut.html, 1) = << <<"a", " ", "b">>, <<"c">> >>
    /\ \E i \in 1..Len(PreTextOf(hIn.html, 2)) : PreTextOf(hIn.html, 2)[i] = "\r"
    /\ Len(ReflowOf(hOut.html, 2)) = 2

\* a pre block with a run of three line feeds around a space, and a run of
\* spaces: three line feeds, one boundary
C20_WitnessRun ==
    /\ SegmentationReturned
    /\ Cardinality(PreStarts(hIn.html)) = 1
    /\ \E i \in RunStarts(PreTextOf(hIn.html, 1)) :
           RunEnd(PreTextOf(hIn.html, 1), i) > i + 2
    /\ ReflowOf(hOut.html, 1) = << <<"a", " ", "b">>, <<"c", " ", "d", " ">> >>

\* where the paragraphs of an article start
ParagraphStarts(h) ==
    { i \in 1..Len(h) : OpenInfo(Info(h[i])) /\ Info(h[i]).name = "p" }

\* the markup inside the paragraph that starts at h[i]
ParagraphMarkup(h, i) ==
    SubSeq(h, i + 1, Min({ j \in i..Len(h) : h[j] = "</p>" }) - 1)

\* its text: the tags taken out, trimmed
ParagraphTextAt(h, i) ==
    Trim(TextOf(ParagraphMarkup(h, i)))

\* text starts with the word, in any case
StartsAs(text, word) ==
    /\ Len(text) >= Len(word)
    /\ \A i \in 1..Len(word) : ToLowerChar(text[i]) = ToLowerChar(word[i])

\* after the first n characters of text come white space, at least one
\* character of it, and a digit
DigitAfter(text, n) ==
    \E d \in (n + 2)..Len(text) :
        /\ text[d] \in DigitSet
        /\ \A k \in (n + 1)..(d - 1) : text[k] \in WhiteSpace

MarkerRule(text) ==
    \E word \in {S_Chapter, S_Part} : StartsAs(text, word) /\ DigitAfter(text, Len(word))

\* the first 50 characters, and the ellipsis when there are more
MarkerTitleRule(text) ==
    SubSeq(text, 1, Min({MAX_CHAPTER_TITLE_LENGTH, Len(text)}))
    \o (IF Len(text) > MAX_CHAPTER_TITLE_LENGTH THEN S_Ellipsis ELSE <<>>)

\* where the paragraphs of an article that are to be promoted start
MarkerStarts(h) ==
    { i \in ParagraphStarts(h) : MarkerRule(ParagraphTextAt(h, i)) }

\* the titles of the chapters they are to become, in their order
MarkerTitlesAt(h, starts) ==
    [ k \in 1..Cardinality(starts) |-> MarkerTitleRule(ParagraphTextAt(h, Nth(starts, k))) ]

TitlesOf(chapterList) ==
    [ k \in 1..Len(chapterList) |-> chapterList[k].title ]

\* C21: in the pass over the paragraphs a paragraph becomes a chapter if and
\* only if its text (tags taken out, trimmed) starts, in any case, with
\* Chapter or Part, then white space, then a digit; the title is the first 50
\* characters of that text, with the ellipsis exactly when the text is
\* longer, so it is never longer than 50 characters and the ellipsis.
C21_MarkerParagraphs ==
    (SegmentationReturned /\ PreStarts(hIn.html) = {}) =>
        /\ TitlesOf(hOut.chapters) = MarkerTitlesAt(hIn.html, MarkerStarts(hIn.html))
        /\ Cardinality(AllContainers(hOut.html)) = Cardinality(MarkerStarts(hIn.html))
        /\ \A k \in 1..Len(hOut.chapters) :
               Len(hOut.chapters[k].title) <= MAX_CHAPTER_TITLE_LENGTH + Len(S_Ellipsis)

\* two paragraphs that start with the word Chapter or Part: one goes on with
\* a letter and is no chapter, the other is one, with a title cut to 50
\* characters and the ellipsis
C21_Witness ==
    /\ SegmentationReturned
    /\ PreStarts(hIn.html) = {}
    /\ Cardinality(ParagraphStarts(hIn.html)) = 2
    /\ \A i \in ParagraphStarts(hIn.html) :
           \E word \in {S_Chapter, S_Part} : StartsAs(ParagraphTextAt(hIn.html, i), word)
    /\ Len(hOut.chapters) = 1
    /\ Len(hOut.chapters[1].title) = MAX_CHAPTER_TITLE_LENGTH + Len(S_Ellipsis)

IdsOf(chapterList) ==
    [ k \in 1..Len(chapterList) |-> chapterList[k].id ]

\* the ids of the chapter containers that start at `starts`, in their order
ContainerIdsAt(out, starts) ==
    [ k \in 1..Cardinality(starts) |-> Info(out[Nth(starts, k)]).id ]

\* the ids of the chapter containers in the order of the processed HTML
ContainerIds(out) ==
    ContainerIdsAt(out, AllContainers(out))

\* C22: for every document the entries of the chapter list are in the order
\* in which their chapter containers stand in the processed document, also
\* when a marker paragraph stands before a pre block in the source.
C22_ListOrder ==
    SegmentationReturned => IdsOf(hOut.chapters) = ContainerIds(hOut.html)

\* the part of C22 the code keeps: the list holds the chapters made of pre
\* blocks in the order of the document, then those made of paragraphs in the
\* order of the document
C22_ListOrder_perPass ==
    SegmentationReturned =>
        IdsOf(hOut.chapters)
            = ContainerIdsAt(hOut.html, HeadedContainers(hOut.html))
              \o ContainerIdsAt(hOut.html,
                                AllContainers(hOut.html) \ HeadedContainers(hOut.html))

\* chapter-1 .. chapter-n
IdsUpTo(n) ==
    [ k \in 1..n |-> ChapterId(k) ]

GeneratedIn(paragraphs) ==
    { j \in 1..Len(paragraphs) : MarkerRule(Trim(TextOf(paragraphs[j]))) }

\* their count over the first n pre blocks of an article
RECURSIVE GeneratedMarkers(_, _)
GeneratedMarkers(h, n) ==
    IF n = 0 THEN 0
    ELSE Cardinality(GeneratedIn(ReflowRule(PreTextOf(h, n)))) + GeneratedMarkers(h, n - 1)

\* C24: the pass over the paragraphs considers the paragraphs of the source
\* only: a paragraph made by the pass over the pre blocks is never promoted,
\* so a pre block gives one chapter entry also when its text starts with
\* "Chapter 1", and there are as many entries as pre blocks and matching
\* paragraphs of the source.
C24_SourceParagraphsOnly ==
    SegmentationReturned =>
        Len(hOut.chapters)
            = Cardinality(PreStarts(hIn.html)) + Cardinality(MarkerStarts(hIn.html))

\* what the code does: the paragraphs made of the pre blocks are counted in
C24_SourceParagraphsOnly_generated ==
    SegmentationReturned =>
        Len(hOut.chapters)
            = Cardinality(PreStarts(hIn.html)) + Cardinality(MarkerStarts(hIn.html))
              + GeneratedMarkers(hIn.html, Cardinality(PreStarts(hIn.html)))

\* a symbol that is no tag of a chapter container
NotWrapper(t) ==
    /\ t # "</div>"
    /\ \A n \in 1..MaxChapters : t # ChapterTag(n)

\* the processed HTML without the chapter containers around its paragraphs
Unwrapped(out) ==
    SelectSeq(out, NotWrapper)

\* an article with the attributes taken off the paragraphs that start at
\* `starts`
PlainAt(h, starts) ==
    [ i \in 1..Len(h) |-> IF i \in starts THEN "<p>" ELSE h[i] ]

\* every chapter container holds one whole paragraph and nothing else
OneParagraphEach(out) ==
    \A i \in AllContainers(out) :
        /\ Info(out[i + 1]).name = "p"
        /\ EndOf(out, i + 1) + 1 = EndOf(out, i)

\* C25: the pass over the paragraphs never puts the text without its tags in
\* the place of the markup: a promoted paragraph stands in its chapter
\* container with its own markup, the markup inside it and the attributes of
\* the paragraph itself, and a paragraph that does not match is left as it
\* is, character for character.
C25_MarkupKept ==
    (SegmentationReturned /\ PreStarts(hIn.html) = {}) =>
        /\ Unwrapped(hOut.html) = hIn.html
        /\ OneParagraphEach(hOut.html)

\* the part of C25 the code keeps: all is kept but the attributes of the
\* promoted paragraphs
C25_MarkupKept_inner ==
    (SegmentationReturned /\ PreStarts(hIn.html) = {}) =>
        /\ Unwrapped(hOut.html) = PlainAt(hIn.html, MarkerStarts(hIn.html))
        /\ OneParagraphEach(hOut.html)

(***************************************************************************)
(* Claims about the login gate                                             *)
(***************************************************************************)
\* a request has come in
Came ==
    gate.response.kind # "none"

\* the path is not /login and does not start with /api/auth
Gated(request) ==
    /\ request.pathname # S_login
    /\ \E i \in 1..Len(S_apiAuth) :
           i > Len(request.pathname) \/ request.pathname[i] # S_apiAuth[i]

\* where the colons of a token stand
Colons(value) ==
    { i \in 1..Len(value) : value[i] = ":" }

\* a token with colons at c1 and c2 and nowhere else: its third part is the
\* signature of the first two
WellSigned(value, c1, c2) ==
    SubSeq(value, c2 + 1, Len(value)) = <<HMAC(TOKEN_SECRET, SubSeq(value, 1, c2 - 1))>>

\* its second part is a time less than 7 days before `time`
Young(stamp, time) ==
    /\ stamp # <<>>
    /\ \A i \in 1..Len(stamp) : stamp[i] \in DigitSet
    /\ time - NumIn(stamp, 10) < maxAge

ValidAt(value, cs, time) ==
    /\ Cardinality(cs) = 2
    /\ WellSigned(value, Min(cs), MaxOrZero(cs))
    /\ Young(SubSeq(value, Min(cs) + 1, MaxOrZero(cs) - 1), time)

\* the request carries an auth-token cookie that is valid at that time
Authentic(request, time) ==
    request.cookie /\ ValidAt(request.value, Colons(request.value), time)

\* the answer is the redirect to /login with the path and query in `from`
SentToLogin(request, response) ==
    /\ response.kind = "redirect"
    /\ response.to = S_login
    /\ response.from = request.pathname \o request.search

\* the request carries a token that a login at time t gave
IssuedAt(request, t) ==
    /\ request.cookie
    /\ \E randomData \in RandomData : request.value = generateSessionToken(randomData, t)

\* what C26 says of a request at a time and of the answer to it
GateRule(request, time, response) ==
    /\ response.kind # "redirect" => Authentic(request, time)
    /\ ~Authentic(request, time) => SentToLogin(request, response)
    /\ \A t \in Times :
           (IssuedAt(request, t) /\ time - t < maxAge) => response.kind # "redirect"

C26_WitnessExpired ==
    /\ Came
    /\ Gated(gate.request)
    /\ IssuedAt(gate.request, 1)
    /\ gate.at = maxAge + 1
    /\ gate.request.search # <<>>
    /\ SentToLogin(gate.request, gate.response)

====
